---------------------------- MODULE Spec2Model ----------------------------
(***************************************************************************)
(* Gallant Solutions: the phase orchestrator (GallantExperience), the two  *)
(* scene controllers (PortalScene, WorldScene) and the browser machinery    *)
(* they run on (requestAnimationFrame, setTimeout, promises).               *)
(*                                                                          *)
(* Time is counted in milliseconds and advances in steps drawn from        *)
(* TickLengths.  A display frame runs every callback that was registered    *)
(* before the frame began; a callback registered while                      *)
(* a frame runs belongs to the next frame.  The continuation of an await    *)
(* runs before any other task once its promise is resolved.                 *)
(***************************************************************************)
EXTENDS Integers, Sequences, FiniteSets, TLC

\* ------------------------------------------------------------------ bounds

\* Wall-clock horizon in ms: time advances past it only while a transition
\* chain or a sequence timer still needs it.
MaxNow == 200

\* The steps, in ms, by which the wall clock is seen to advance.
TickLengths == {200, 300}

\* Number of 'enter' clicks the user makes.
MaxClicks == 2

\* Number of transitionOut() calls a client of PortalScene makes.
MaxCalls == 2

\* Number of destroy() calls a client makes on one scene controller.
MaxDestroy == 2

\* Largest content overflow (scrollHeight - clientHeight) of #scroll-content.
MaxOverflow == 1

\* Number of start() calls that build ambient nodes.
MaxStarts == 3

\* Frames of one controller in which a smoothed value (pointer, camera)
\* moves: the display is followed until a controller has used them up.
MaxMoves == 2

\* Wall-clock horizon in ms of the runs that follow the grid floor.
MaxGridTime == 16000
RandomSteps == 4

\* The steps, in ms, by which the wall clock advances in those runs.
GridTickLengths == {1000, 4000}

\* ------------------------------------------------------- program constants

\* const duration = 0.7 (seconds), in ms.
Duration == 700

\* setTimeout(r, 150), setTimeout(r, 50), setTimeout(r, 400)
FlashPeakDelay == 150
WorldStartDelay == 50
FlashHoldDelay == 400

\* const dotCount = 20; three ring configurations.
DotCount == 20
RingCount == 3

\* const gridDivisions = 50; 18 floating solids; 8 fog planes.
GridDivisions == 50
GridSize == 100
GridModulus == 4
CleanupDelay == 1200
SolidCount == 18
FogCount == 8

\* clientHeight of #scroll-content (layout units).
ClientHeight == 2

\* ------------------------------------------------------------- JS numbers

\* The operators below apply a local function to their operands, so that an
\* operand is evaluated once however often the body names it.
Gcd(a, b) ==
    LET gcd[x \in Int, y \in Int] == IF y = 0 THEN x ELSE gcd[y, x % y]
    IN  gcd[a, b]

\* A finite JS number n/d in lowest terms, or one of the non-finite values.
Num(n, d) ==
    LET num[x \in Int, y \in Int, g \in Int] ==
            [kind |-> "num", n |-> x \div g, d |-> y \div g]
    IN  num[n, d, Gcd(n, d)]
NaN == [kind |-> "NaN", n |-> 0, d |-> 0]
Infinity == [kind |-> "Infinity", n |-> 0, d |-> 0]
Zero == Num(0, 1)

\* a / b on non-negative JS numbers: 0/0 is NaN, x/0 is Infinity.
JsDiv(a, b) ==
    IF b = 0 THEN (IF a = 0 THEN NaN ELSE Infinity) ELSE Num(a, b)

Min(a, b) == IF a < b THEN a ELSE b

NegInfinity == [kind |-> "-Infinity", n |-> 0, d |-> 0]

\* An integer literal as a JS number.
Whole(n) == Num(n, 1)

\* The values a JS number takes in the model.
JsNumber == [kind : {"num", "NaN", "Infinity", "-Infinity"}, n : Int, d : Int]

\* -1, 0 or 1 for a JS number other than NaN.
Sign(a) ==
    CASE a.kind = "Infinity" -> 1
      [] a.kind = "-Infinity" -> -1
      [] OTHER -> IF a.n > 0 THEN 1 ELSE IF a.n < 0 THEN -1 ELSE 0

\* -a
JsNeg(a) ==
    LET negated[x \in JsNumber] ==
            CASE x.kind = "NaN" -> NaN
              [] x.kind = "Infinity" -> NegInfinity
              [] x.kind = "-Infinity" -> Infinity
              [] OTHER -> Num(-x.n, x.d)
    IN  negated[a]

\* a + b: Infinity + -Infinity is NaN.
JsAdd(a, b) ==
    LET sum[x, y \in JsNumber] ==
            CASE x.kind = "NaN" \/ y.kind = "NaN" -> NaN
              [] x.kind # "num" /\ y.kind # "num" -> IF x.kind = y.kind THEN x ELSE NaN
              [] x.kind # "num" -> x
              [] y.kind # "num" -> y
              [] OTHER -> LET g == Gcd(x.d, y.d)
                          IN  Num(x.n * (y.d \div g) + y.n * (x.d \div g),
                                  (x.d \div g) * y.d)
    IN  sum[a, b]

\* a - b
JsSub(a, b) == JsAdd(a, JsNeg(b))

\* a * b: 0 * Infinity is NaN.
JsMul(a, b) ==
    LET product[x, y \in JsNumber] ==
            CASE x.kind = "NaN" \/ y.kind = "NaN" -> NaN
              [] x.kind # "num" \/ y.kind # "num" ->
                    IF Sign(x) * Sign(y) = 0 THEN NaN
                    ELSE IF Sign(x) * Sign(y) > 0 THEN Infinity ELSE NegInfinity
              [] OTHER -> LET g == Gcd(x.n, y.d)
                              h == Gcd(y.n, x.d)
                          IN  Num((x.n \div g) * (y.n \div h),
                                  (x.d \div h) * (y.d \div g))
    IN  product[a, b]

\* Math.abs(a)
JsAbs(a) ==
    CASE a.kind = "NaN" -> NaN
      [] a.kind # "num" -> Infinity
      [] OTHER -> IF a.n < 0 THEN Num(-a.n, a.d) ELSE a

\* a <= b: false when either is NaN.
JsLe(a, b) ==
    LET le[x, y \in JsNumber] ==
            CASE x.kind = "NaN" \/ y.kind = "NaN" -> FALSE
              [] x.kind = "-Infinity" \/ y.kind = "Infinity" -> TRUE
              [] x.kind = "Infinity" \/ y.kind = "-Infinity" -> FALSE
              [] OTHER -> LET g == Gcd(x.d, y.d)
                          IN  x.n * (y.d \div g) <= y.n * (x.d \div g)
    IN  le[a, b]

\* current += (target - current) * factor
Approach(current, target, factor) ==
    JsAdd(current, JsMul(JsSub(target, current), factor))

\* A Vector2 / Vector3 of JS numbers.
Vec2(x, y) == [x |-> x, y |-> y]
Vec3(x, y, z) == [x |-> x, y |-> y, z |-> z]

\* Vector2.lerp(target, alpha)
Lerp(current, target, alpha) ==
    Vec2(Approach(current.x, target.x, alpha), Approach(current.y, target.y, alpha))

\* ----------------------------------------------------------- scene graphs

\* Objects scene.traverse visits that carry a geometry and a material.
PortalObjects ==
    {<<"globe", 0, 0>>, <<"globeCore", 0, 0>>,
     <<"particles", 0, 0>>, <<"cursorParticles", 0, 0>>}
    \cup {<<"ring", r, 0>> : r \in 1..RingCount}
    \cup {<<"dot", r, i>> : r \in 1..RingCount, i \in 1..DotCount}

WorldObjects ==
    {<<"particles", 0, 0>>}
    \cup {<<"line", i, 1>> : i \in -GridDivisions..GridDivisions}
    \cup {<<"line2", i, 1>> : i \in -GridDivisions..GridDivisions}
    \cup {<<"solid", i, 0>> : i \in 1..SolidCount}
    \cup {<<"fog", i, 0>> : i \in 1..FogCount}

Renderer == [type |-> "renderer", owner |-> <<"renderer", 0, 0>>]

\* Every object is built with a geometry of its own.
GeometryOf(obj) == [type |-> "geometry", owner |-> obj]

\* Every portal object is built with a material of its own.
PortalMaterialOf(obj) == [type |-> "material", owner |-> obj]

\* All grid lines are built with the one gridMat.
WorldMaterialOf(obj) ==
    IF obj[1] \in {"line", "line2"}
    THEN [type |-> "material", owner |-> <<"gridMat", 0, 0>>]
    ELSE [type |-> "material", owner |-> obj]

PortalResources ==
    {Renderer} \cup {GeometryOf(o) : o \in PortalObjects}
               \cup {PortalMaterialOf(o) : o \in PortalObjects}

WorldResources ==
    {Renderer} \cup {GeometryOf(o) : o \in WorldObjects}
               \cup {WorldMaterialOf(o) : o \in WorldObjects}

\* dispose() calls one teardown pass makes on each resource:
\* renderer.dispose(), then for every traversed object its geometry and its
\* material.
PortalDisposals ==
    [r \in PortalResources |->
        (IF r = Renderer THEN 1 ELSE 0)
        + Cardinality({o \in PortalObjects : GeometryOf(o) = r})
        + Cardinality({o \in PortalObjects : PortalMaterialOf(o) = r})]

WorldDisposals ==
    [r \in WorldResources |->
        (IF r = Renderer THEN 1 ELSE 0)
        + Cardinality({o \in WorldObjects : GeometryOf(o) = r})
        + Cardinality({o \in WorldObjects : WorldMaterialOf(o) = r})]

\* ------------------------------------------------------------------ state

VARIABLES
    app,      \* GallantExperience: currentPhase, portal/world references, position in enterWorld
    dom,      \* the page: flash overlay, containers, #scroll-content extents
    audio,    \* AudioSystem
    portal,   \* PortalScene
    world,    \* WorldScene (exists once constructed)
    raf,      \* requestAnimationFrame: callbacks of the next frame and of the running frame
    win,      \* window.innerWidth, window.innerHeight
    gpu,      \* per controller, the teardown passes (renderer.dispose(), scene.traverse) run
    now,      \* wall clock, in ms
    obs,      \* history: calls received, steps of the sequence that have run
    scene     \* the scene content init() generates, and how far init() has got

vars == <<app, dom, audio, portal, world, raf, win, gpu, now, obs, scene>>

\* Window sizes a resize can produce.
WindowSizes == {<<1920, 1080>>, <<800, 600>>}

Aspect(size) == Num(size[1], size[2])


\* ------------------------------------------------- requestAnimationFrame

\* A registered callback: its handle, the function, and for the transition
\* closure the transitionOut() call whose resolve/startTime it captured.
Callback(id, fn, call) == [id |-> id, fn |-> fn, call |-> call]

\* The handle requestAnimationFrame returns.  The browser numbers its
\* handles consecutively; the model names a handle after the function it
\* registers, which identifies the same registration because each of these
\* functions has at most one registration outstanding at any time, so a
\* remembered handle names either that registration or none.
Handle(fn, call) ==
    CASE fn = "animate" -> 1
      [] fn = "worldAnimate" -> 2
      [] fn = "transitionAnimate" -> 2 + call

RECURSIVE Without(_, _)
Without(q, id) ==
    IF q = <<>> THEN <<>>
    ELSE IF Head(q).id = id THEN Without(Tail(q), id)
    ELSE <<Head(q)>> \o Without(Tail(q), id)

\* requestAnimationFrame(fn) made outside a frame callback.
Requested(fn, call) ==
    [raf EXCEPT !.pending = Append(@, Callback(Handle(fn, call), fn, call))]

\* The running callback returns, having requested another frame.
ReturnedRequesting(fn, call) ==
    [pending |-> Append(raf.pending, Callback(Handle(fn, call), fn, call)),
     running |-> Tail(raf.running)]

\* The running callback returns, having requested nothing.
Returned == [raf EXCEPT !.running = Tail(@)]

\* cancelAnimationFrame(id)
Cancelled(id) ==
    [pending |-> Without(raf.pending, id), running |-> Without(raf.running, id)]

\* dispose() calls a resource has received: every teardown pass makes the
\* same calls, none of them conditional.
PortalDisposeCalls(r) == gpu.portal * PortalDisposals[r]
WorldDisposeCalls(r) == gpu.world * WorldDisposals[r]

\* ------------------------------------------------------------ THREE.Clock

\* clock.getElapsedTime(): time since the clock's first reading, which the
\* constructor's own animate() call makes.
PortalElapsed == now - portal.clockStart
WorldElapsed == now - world.clockStart

\* ----------------------------------------------------------- PortalScene

\* One transitionOut() call: the promise it returned, how often its
\* resolve() was invoked, and the startTime its closure captured.
StartedCall(t) ==
    [started |-> TRUE, resolved |-> FALSE, signals |-> 0, startTime |-> t]

\* The early return of the async function: a promise fulfilled at once.
NoOpCall == [started |-> FALSE, resolved |-> TRUE, signals |-> 0, startTime |-> 0]

\* resolve() of call c.
Resolved(c) ==
    [portal EXCEPT !.calls[c].resolved = TRUE, !.calls[c].signals = @ + 1]

\* Mutant: the progress is not clamped to 1.
Progress_Unclamped(elapsed) == elapsed

\* progress = Math.min(elapsed / duration, 1), as a count of 1/Duration.
Progress(elapsed) == Min(elapsed, Duration)

\* eased = 1 - Math.pow(1 - progress, 3), progress counted in 1/Duration.
Eased(progress) ==
    LET rest == JsSub(Whole(1), Num(progress, Duration))
    IN  JsSub(Whole(1), JsMul(rest, JsMul(rest, rest)))

\* Mutant: the field of view is widened from its current value every frame.
TransitionFov_Accumulates(eased) == JsAdd(portal.fov, JsMul(eased, Whole(40)))

\* camera.fov = 60 + eased * 40
TransitionFov(eased) == JsAdd(Whole(60), JsMul(eased, Whole(40)))

\* camera.position.z = 5 - eased * 5.5
TransitionCameraZ(eased) == JsSub(Whole(5), JsMul(eased, Num(11, 2)))

\* glowIntensity.value = 0.5 + eased * 3; intensity.value = 1 + eased * 5;
\* every ring's material.opacity = 0.4 * (1 - eased)
TransitionLook(look, eased) ==
    [look EXCEPT !.glowIntensity = JsAdd(Num(5, 10), JsMul(eased, Whole(3))),
                 !.coreIntensity = JsAdd(Whole(1), JsMul(eased, Whole(5))),
                 !.ringOpacity = JsMul(Num(4, 10), JsSub(Whole(1), eased))]

\* What one transitionAnimate frame draws at the given progress.
TransitionDrawn(progress) ==
    [portal EXCEPT !.progress = progress,
                   !.cameraZ = TransitionCameraZ(Eased(progress)),
                   !.fov = TransitionFov(Eased(progress)),
                   !.look = IF portal.followed
                            THEN TransitionLook(@, Eased(progress)) ELSE @,
                   !.renders = @ + 1]

\* Mutant: the smoothing factor is written as 5 instead of 0.05.
PortalPointer_FactorFive == Lerp(portal.mouse, portal.targetMouse, Whole(5))

\* this.mouse.lerp(this.targetMouse, 0.05)
PortalPointer == Lerp(portal.mouse, portal.targetMouse, Num(5, 100))

\* ringConfigs: tilt and speed of the three orbit rings.
RingConfigs ==
    <<[tilt |-> Num(4, 10), speed |-> Num(3, 10)],
      [tilt |-> Num(-6, 10), speed |-> Num(-2, 10)],
      [tilt |-> Num(2, 10), speed |-> Num(15, 100)]>>

\* The rotation of ring i as init() leaves it.  z is amplitude * Math.sin(phase);
\* the model keeps the sine by its argument.
RingBuilt(i) ==
    [x |-> RingConfigs[i].tilt, y |-> Zero, z |-> [amplitude |-> Zero, phase |-> Zero]]

\* ring.rotation.y += ring.userData.speed * 0.01
\* ring.rotation.z = Math.sin(time * 0.3 + ring.userData.baseTilt) * 0.05
RingTurned(ring, i, time) ==
    [ring EXCEPT
        !.y = JsAdd(@, JsMul(RingConfigs[i].speed, Num(1, 100))),
        !.z = [amplitude |-> Num(5, 100),
               phase |-> JsAdd(JsMul(Num(time, 1000), Num(3, 10)), RingConfigs[i].tilt)]]

\* What the portal shows, as init() leaves it: `time` is the elapsed time, in
\* ms, that the last animate() read.
LookBuilt ==
    [time |-> 0, rings |-> [i \in 1..RingCount |-> RingBuilt(i)],
     glowIntensity |-> Num(5, 10), coreIntensity |-> Whole(1),
     ringOpacity |-> Num(25, 100)]

\* Vector2.length(), of a vector that lies along an axis.
Length(v) ==
    CASE v.y = Zero -> JsAbs(v.x)
      [] v.x = Zero -> JsAbs(v.y)

\* glowTarget = 0.5 + mouseDist * 0.5
GlowTarget(mouse) == JsAdd(Num(5, 10), JsMul(Length(mouse), Num(5, 10)))

\* What animate() makes of it at elapsed time `time`, the pointer at `mouse`.
AnimatedLook(look, time, mouse) ==
    [look EXCEPT !.time = time,
                 !.rings = [i \in 1..RingCount |-> RingTurned(@[i], i, time)],
                 !.glowIntensity = Approach(@, GlowTarget(mouse), Num(5, 100))]

\* PortalScene.animate as a frame callback.  The look changes in every frame
\* without bound, so it is followed only where portal.followed asks for it,
\* and then every frame counts as a move.
PortalAnimate ==
    IF portal.isDestroyed
    THEN /\ raf' = Returned
         /\ UNCHANGED portal
    ELSE /\ raf' = ReturnedRequesting("animate", 0)
         /\ portal' = [portal EXCEPT
                          !.animationId = Handle("animate", 0),
                          !.mouse = PortalPointer,
                          !.look = IF portal.followed
                                   THEN AnimatedLook(@, PortalElapsed, PortalPointer) ELSE @,
                          !.moves = IF PortalPointer = portal.mouse /\ ~portal.followed
                                    THEN @ ELSE @ + 1,
                          !.renders = @ + 1]

\* Mutant: transitionAnimate without its isDestroyed check.
TransitionAnimate_Unguarded(c) ==
    LET elapsed == PortalElapsed - portal.calls[c].startTime
        progress == Progress(elapsed)
        drawn == TransitionDrawn(progress)
    IN  IF progress < Duration
        THEN /\ portal' = drawn
             /\ raf' = ReturnedRequesting("transitionAnimate", c)
        ELSE /\ portal' = [drawn EXCEPT !.calls = Resolved(c).calls]
             /\ raf' = Returned

\* Mutant: transitionAnimate requests its next frame before it looks at the
\* progress, so the chain goes on after it has resolved.
TransitionAnimate_KeepsGoing(c) ==
    IF portal.isDestroyed
    THEN /\ portal' = Resolved(c)
         /\ raf' = Returned
    ELSE LET elapsed == PortalElapsed - portal.calls[c].startTime
             progress == Progress(elapsed)
             drawn == TransitionDrawn(progress)
         IN  /\ raf' = ReturnedRequesting("transitionAnimate", c)
             /\ IF progress < Duration
                THEN portal' = drawn
                ELSE portal' = [drawn EXCEPT !.calls = Resolved(c).calls]

\* Mutant: on a destroyed portal the closure returns without resolve().
TransitionAnimate_DestroyedSilent(c) ==
    IF portal.isDestroyed
    THEN /\ UNCHANGED portal
         /\ raf' = Returned
    ELSE LET elapsed == PortalElapsed - portal.calls[c].startTime
             progress == Progress(elapsed)
             drawn == TransitionDrawn(progress)
         IN  IF progress < Duration
             THEN /\ portal' = drawn
                  /\ raf' = ReturnedRequesting("transitionAnimate", c)
             ELSE /\ portal' = [drawn EXCEPT !.calls = Resolved(c).calls]
                  /\ raf' = Returned

\* The transitionAnimate closure of call c as a frame callback.
TransitionAnimate(c) ==
    IF portal.isDestroyed
    THEN /\ portal' = Resolved(c)
         /\ raf' = Returned
    ELSE LET elapsed == PortalElapsed - portal.calls[c].startTime
             progress == Progress(elapsed)
             drawn == TransitionDrawn(progress)
         IN  IF progress < Duration
             THEN /\ portal' = drawn
                  /\ raf' = ReturnedRequesting("transitionAnimate", c)
             ELSE /\ portal' = [drawn EXCEPT !.calls = Resolved(c).calls]
                  /\ raf' = Returned

\* Mutant: transitionOut without its isTransitioning check.
TransitionOut_Reentrant ==
    /\ portal' = [portal EXCEPT
                     !.isTransitioning = TRUE,
                     !.calls = Append(@, StartedCall(PortalElapsed))]
    /\ raf' = Requested("transitionAnimate", Len(portal.calls) + 1)

\* Mutant: transitionOut never registers its first frame.
TransitionOut_NoFrame ==
    IF portal.isTransitioning
    THEN /\ portal' = [portal EXCEPT !.calls = Append(@, NoOpCall)]
         /\ UNCHANGED raf
    ELSE /\ portal' = [portal EXCEPT
                          !.isTransitioning = TRUE,
                          !.calls = Append(@, StartedCall(PortalElapsed))]
         /\ UNCHANGED raf

\* PortalScene.transitionOut()
TransitionOut ==
    IF portal.isTransitioning
    THEN /\ portal' = [portal EXCEPT !.calls = Append(@, NoOpCall)]
         /\ UNCHANGED raf
    ELSE /\ portal' = [portal EXCEPT
                          !.isTransitioning = TRUE,
                          !.calls = Append(@, StartedCall(PortalElapsed))]
         /\ raf' = Requested("transitionAnimate", Len(portal.calls) + 1)

\* Mutant: destroy() cancels the frame registered last on the page instead
\* of the one its own loop registered.
PortalDestroy_CancelsLatest ==
    /\ portal' = [portal EXCEPT !.isDestroyed = TRUE]
    /\ raf' = [raf EXCEPT !.pending = SubSeq(@, 1, Len(@) - 1)]
    /\ gpu' = [gpu EXCEPT !.portal = @ + 1]

\* PortalScene.destroy()
PortalDestroy ==
    /\ portal' = [portal EXCEPT !.isDestroyed = TRUE]
    /\ raf' = Cancelled(portal.animationId)
    /\ gpu' = [gpu EXCEPT !.portal = @ + 1]

\* Mutant: the resize listener without its isDestroyed check.
PortalResized_Unguarded ==
    IF ~portal.exists THEN portal
    ELSE [portal EXCEPT !.aspect = Aspect(win'), !.size = win']

\* The resize listener of PortalScene.setupEvents, window already resized.
PortalResized ==
    IF ~portal.exists \/ portal.isDestroyed THEN portal
    ELSE [portal EXCEPT !.aspect = Aspect(win'), !.size = win']

\* The pointer target of a mousemove / touchmove at (x, y):
\* ((x / innerWidth) * 2 - 1, -(y / innerHeight) * 2 + 1).
PointerTarget(x, y) ==
    Vec2(JsSub(JsMul(Num(x, win[1]), Whole(2)), Whole(1)),
         JsAdd(JsMul(JsNeg(Num(y, win[2])), Whole(2)), Whole(1)))

\* The mousemove listener of PortalScene.setupEvents.
PortalMouseMoved(x, y) ==
    IF ~portal.exists THEN portal
    ELSE [portal EXCEPT !.targetMouse = PointerTarget(x, y)]

\* A 'touchmove' event: PortalScene.setupEvents registers no listener for it.
PortalTouchMoved(x, y) == portal

\* ------------------------------------------------------------ WorldScene

\* start + wave(radians + turns * PI) * scale, with the sine or cosine left
\* unevaluated; a coordinate that was set directly has wave "none".
Swing(start, wave, radians, turns, scale) ==
    [start |-> start, wave |-> wave, radians |-> radians, turns |-> turns,
     scale |-> scale]

\* A floating solid as the loop of init() builds it from Math.random() draws:
\* mesh.position.set(...) and mesh.userData = {...}.  phase is held in
\* units of PI.  Every child of floatingObjects is built and animated the same
\* way, so one of them is followed.
SolidBuilt(x, y, floatSpeed, rotSpeed, phase, floatAmplitude) ==
    LET startX == JsMul(JsSub(x, Num(5, 10)), Whole(40))
        startY == JsSub(JsMul(y, Whole(12)), Whole(3))
    IN  [userData |-> [startY |-> startY,
                       startX |-> startX,
                       floatSpeed |-> JsAdd(Num(2, 10), JsMul(floatSpeed, Num(6, 10))),
                       rotSpeed |-> JsMul(JsSub(rotSpeed, Num(5, 10)), Num(25, 10)),
                       phase |-> JsMul(phase, Whole(2)),
                       floatAmplitude |-> JsAdd(Num(3, 10), JsMul(floatAmplitude, Num(8, 10)))],
         position |-> Vec2(Swing(startX, "none", Zero, Zero, Zero),
                           Swing(startY, "none", Zero, Zero, Zero)),
         rotation |-> Vec3(Zero, Zero, Zero)]

\* The solid of a scene whose solids are not followed.
NoSolid == SolidBuilt(Zero, Zero, Zero, Zero, Zero, Zero)

\* ud.floatAmplitude || 0.5
AmplitudeOr(floatAmplitude) ==
    IF floatAmplitude.kind = "NaN" \/ floatAmplitude = Zero THEN Num(5, 10)
    ELSE floatAmplitude

\* Mutant: the frame update also advances the descriptor's phase.
SolidAnimated_PhaseAdvances(solid, time) ==
    [solid EXCEPT !.userData.phase = JsAdd(@, Num(time, 1000)),
                  !.rotation.x = JsAdd(@, JsMul(solid.userData.rotSpeed, Num(3, 1000)))]

\* The body of floatingObjects.children.forEach in animate(), time in ms.
SolidAnimated(solid, time) ==
    LET ud == solid.userData
        angle == JsMul(Num(time, 1000), ud.floatSpeed)
    IN  [solid EXCEPT
            !.position = Vec2(Swing(ud.startX, "cos", JsMul(angle, Num(5, 10)),
                                    ud.phase, Num(3, 10)),
                              Swing(ud.startY, "sin", angle, ud.phase,
                                    AmplitudeOr(ud.floatAmplitude))),
            !.rotation = Vec3(JsAdd(@.x, JsMul(ud.rotSpeed, Num(3, 1000))),
                              JsAdd(@.y, JsMul(ud.rotSpeed, Num(4, 1000))),
                              JsAdd(@.z, JsMul(ud.rotSpeed, Num(1, 1000))))]

NoWorld ==
    [exists |-> FALSE, isDestroyed |-> FALSE, animationId |-> 0, clockStart |-> 0,
     scrollProgress |-> Zero, renders |-> 0,
     mouse |-> Vec2(Zero, Zero), targetMouse |-> Vec2(Zero, Zero),
     camera |-> Vec3(Zero, Zero, Zero), rotation |-> Vec2(Zero, Zero),
     time |-> 0, gridZ |-> Zero, moves |-> 0,
     followed |-> FALSE, solid |-> NoSolid,
     aspect |-> Zero, size |-> <<0, 0>>]

\* new WorldScene(canvas): the constructor, init() and its first animate().
WorldConstructed ==
    [exists |-> TRUE, isDestroyed |-> FALSE,
     animationId |-> Handle("worldAnimate", 0), clockStart |-> now,
     scrollProgress |-> Zero, renders |-> 1,
     mouse |-> Vec2(Zero, Zero), targetMouse |-> Vec2(Zero, Zero),
     camera |-> Vec3(Zero, Whole(2), Whole(10)), rotation |-> Vec2(Zero, Zero),
     time |-> 0, gridZ |-> Zero, moves |-> 0,
     followed |-> FALSE, solid |-> NoSolid,
     aspect |-> Aspect(win), size |-> win]

\* this.mouse.lerp(this.targetMouse, 0.03)
WorldPointer == Lerp(world.mouse, world.targetMouse, Num(3, 100))

\* Mutant: the camera rises with the scroll progress.
CameraTargetY_Rising(progress) == JsAdd(Whole(2), JsMul(progress, Whole(3)))

\* targetY = 2 - scrollProgress * 3, targetZ = 10 - scrollProgress * 5
CameraTargetY(progress) == JsSub(Whole(2), JsMul(progress, Whole(3)))
CameraTargetZ_Receding(progress) == JsAdd(Whole(10), JsMul(progress, Whole(5)))
CameraTargetZ(progress) == JsSub(Whole(10), JsMul(progress, Whole(5)))

\* The camera position after one frame: Y and Z follow the scroll progress,
\* X follows the smoothed pointer.
WorldCamera ==
    Vec3(Approach(world.camera.x, JsMul(WorldPointer.x, Num(3, 2)), Num(2, 100)),
         Approach(world.camera.y, CameraTargetY(world.scrollProgress), Num(5, 100)),
         Approach(world.camera.z, CameraTargetZ(world.scrollProgress), Num(5, 100)))

\* Mutant: the offset is not wrapped.
GridOffset_Unwrapped(time) == Num(-time, 2000)

\* gridFloor.position.z = -(time * 0.5) % 4, time in ms: the remainder of a
\* non-positive dividend is non-positive.
GridOffset(time) == Num(-(time % (GridModulus * 2000)), 2000)

\* WorldScene.animate as a frame callback.
WorldAnimate ==
    IF world.isDestroyed
    THEN /\ raf' = Returned
         /\ UNCHANGED world
    ELSE /\ raf' = ReturnedRequesting("worldAnimate", 0)
         /\ world' = [world EXCEPT
                         !.animationId = Handle("worldAnimate", 0),
                         !.mouse = WorldPointer,
                         !.camera = WorldCamera,
                         !.rotation = Vec2(JsMul(WorldPointer.y, Num(1, 100)),
                                           JsNeg(JsMul(WorldPointer.x, Num(2, 100)))),
                         !.time = WorldElapsed,
                         !.solid = IF world.followed
                                   THEN SolidAnimated(@, WorldElapsed) ELSE @,
                         !.gridZ = GridOffset(WorldElapsed),
                         !.moves = IF WorldPointer = world.mouse
                                      /\ WorldCamera = world.camera
                                      /\ ~world.followed
                                   THEN @ ELSE @ + 1,
                         !.renders = @ + 1]

\* Mutant: updateScroll clamps its argument to [0, 1] and maps a non-finite
\* one to 0.
UpdateScroll_Clamped(progress) ==
    [world EXCEPT !.scrollProgress =
        IF progress.kind # "num" THEN Zero
        ELSE IF progress.n > progress.d THEN Whole(1)
        ELSE progress]

\* WorldScene.updateScroll(progress)
UpdateScroll(progress) == [world EXCEPT !.scrollProgress = progress]

\* WorldScene.destroy()
WorldDestroy ==
    /\ world' = [world EXCEPT !.isDestroyed = TRUE]
    /\ raf' = Cancelled(world.animationId)
    /\ gpu' = [gpu EXCEPT !.world = @ + 1]

\* The resize listener of WorldScene.setupEvents, window already resized.
WorldResized ==
    IF ~world.exists \/ world.isDestroyed THEN world
    ELSE [world EXCEPT !.aspect = Aspect(win'), !.size = win']

\* The mousemove listener of WorldScene.setupEvents (handleMove).
WorldMouseMoved(x, y) ==
    IF ~world.exists THEN world
    ELSE [world EXCEPT !.targetMouse = PointerTarget(x, y)]

\* The touchmove listener of WorldScene.setupEvents, for a non-empty
\* e.touches: handleMove(e.touches[0].clientX, e.touches[0].clientY).
WorldTouchMoved(x, y) ==
    IF ~world.exists THEN world
    ELSE [world EXCEPT !.targetMouse = PointerTarget(x, y)]

\* ----------------------------------------------------------- AudioSystem

\* new AudioSystem(): no context yet.  contexts counts the AudioContext
\* objects constructed; starts numbers the passes of start() that built
\* nodes; oscillators holds, per pass, its eight nodes (four oscillators and
\* their four LFOs) under the number of the pass; noiseNode is the pass whose
\* source the field refers to, 0 for null; running is the set of ambient
\* nodes that have been started and not stopped; timers holds the due times
\* of the cleanup callbacks of stop().
NoAudio ==
    [ctx |-> FALSE, isPlaying |-> FALSE, cues |-> 0, contexts |-> 0,
     starts |-> 0, oscillators |-> <<>>, noiseNode |-> 0, running |-> {},
     timers |-> {}]

\* initContext()
ContextReady(a) ==
    IF a.ctx THEN a ELSE [a EXCEPT !.ctx = TRUE, !.contexts = @ + 1]

\* playTransitionWhoosh(): a one-shot oscillator that stops itself after 2 s.
Whoosh(a) == [ContextReady(a) EXCEPT !.cues = Min(@ + 1, MaxClicks)]

\* playHoverBlip(): a one-shot oscillator that stops itself after 0.2 s and
\* is kept in no field.
Blip(a) == ContextReady(a)

\* Mutant: start() does not look at isPlaying.
AudioStarted_Unguarded(a) ==
    [ContextReady(a) EXCEPT
        !.isPlaying = TRUE,
        !.starts = @ + 1,
        !.oscillators = Append(@, a.starts + 1),
        !.noiseNode = a.starts + 1,
        !.running = @ \cup {<<"oscillators", a.starts + 1>>,
                            <<"noiseNode", a.starts + 1>>}]

\* start()
AudioStarted(a) ==
    IF ContextReady(a).isPlaying THEN ContextReady(a)
    ELSE [ContextReady(a) EXCEPT
             !.isPlaying = TRUE,
             !.starts = @ + 1,
             !.oscillators = Append(@, a.starts + 1),
             !.noiseNode = a.starts + 1,
             !.running = @ \cup {<<"oscillators", a.starts + 1>>,
                                 <<"noiseNode", a.starts + 1>>}]

\* stop(): the nodes are stopped by a timer 1200 ms later.
AudioStopped(a) ==
    IF ~a.ctx THEN a
    ELSE [a EXCEPT !.isPlaying = FALSE, !.timers = @ \cup {now + CleanupDelay}]

\* toggle()
AudioToggled(a) == IF a.isPlaying THEN AudioStopped(a) ELSE AudioStarted(a)

\* The callback of stop()'s timer: every node in this.oscillators and the
\* node in this.noiseNode, as the fields are when the timer fires.
AudioCleaned(a, due) ==
    [a EXCEPT
        !.timers = @ \ {due},
        !.oscillators = <<>>,
        !.noiseNode = 0,
        !.running = @ \ ({<<"oscillators", a.oscillators[i]>> :
                               i \in 1..Len(a.oscillators)}
                          \cup {<<"noiseNode", a.noiseNode>>})]

\* ------------------------------------------------------------- scheduling

\* Mutant: transitionOut() is called without await.
ContinuationReady_NotAwaited == app.pc = "awaitTransition"

\* The continuation of `await this.portal.transitionOut()` is ready: it runs
\* as a microtask, ahead of every task, timer and further frame callback.
ContinuationReady ==
    /\ app.pc = "awaitTransition"
    /\ portal.calls[app.awaited].resolved

\* No frame is being run and no microtask is waiting: a task may start.
Quiet == raf.running = <<>> /\ ~ContinuationReady

TimerPending == app.pc \in {"flashPeak", "worldStart", "flashHold"}

\* A transition chain is registered and has not yet seen its duration elapse.
TransitionRunning ==
    LET registered == raf.running \o raf.pending IN
    \E i \in 1..Len(registered) :
        /\ registered[i].fn = "transitionAnimate"
        /\ PortalElapsed - portal.calls[registered[i].call].startTime < Duration

\* Time passes (also between two callbacks of one frame).
Tick ==
    /\ ~ContinuationReady
    /\ \/ now < MaxNow
       \/ TransitionRunning
       \/ TimerPending /\ now < app.due
    /\ \E dt \in TickLengths : now' = now + dt
    /\ UNCHANGED <<app, dom, audio, portal, world, raf, win, gpu, obs, scene>>

\* The display starts a frame: the registered callbacks become its run list.
BeginFrame ==
    /\ Quiet
    /\ raf.pending # <<>>
    /\ portal.moves < MaxMoves
    /\ world.moves < MaxMoves
    /\ raf' = [pending |-> <<>>, running |-> raf.pending]
    /\ portal' = [portal EXCEPT !.renders = 0]
    /\ world' = [world EXCEPT !.renders = 0]
    /\ UNCHANGED <<app, dom, audio, win, gpu, now, obs, scene>>

\* The frame runs its next callback.
RunCallback ==
    /\ raf.running # <<>>
    /\ ~ContinuationReady
    /\ LET cb == Head(raf.running) IN
       \/ /\ cb.fn = "animate"
          /\ PortalAnimate
          /\ UNCHANGED world
       \/ /\ cb.fn = "transitionAnimate"
          /\ TransitionAnimate(cb.call)
          /\ UNCHANGED world
       \/ /\ cb.fn = "worldAnimate"
          /\ WorldAnimate
          /\ UNCHANGED portal
    /\ UNCHANGED <<app, dom, audio, win, gpu, now, obs, scene>>

\* window 'resize': both controllers' listeners run.
Resize ==
    /\ Quiet
    /\ \E size \in WindowSizes \ {win} : win' = size
    /\ portal' = PortalResized
    /\ world' = WorldResized
    /\ UNCHANGED <<app, dom, audio, raf, gpu, now, obs, scene>>

\* ------------------------------------------------------ GallantExperience

\* The statements of enterWorld that have run, as a set and in the order in
\* which they ran; `step` lists them in statement order.
Did(step) ==
    [obs EXCEPT !.steps = @ \cup {step[i] : i \in 1..Len(step)},
                !.order = @ \o step]

\* GallantExperience.initWorld, up to the scroll listener it registers.
InitWorld ==
    /\ world' = WorldConstructed
    /\ raf' = Requested("worldAnimate", 0)

\* Mutant: enterWorld without its phase check.
EnterWorld_Unguarded ==
    /\ audio' = AudioStarted(Whoosh(audio))
    /\ IF app.portal
       THEN /\ TransitionOut
            /\ app' = [app EXCEPT !.currentPhase = "world",
                                  !.pc = "awaitTransition",
                                  !.awaited = Len(portal.calls) + 1]
            /\ dom' = [dom EXCEPT !.uiFading = TRUE]
       ELSE /\ app' = [app EXCEPT !.currentPhase = "world",
                                  !.pc = "flashPeak",
                                  !.due = now + FlashPeakDelay]
            /\ dom' = [dom EXCEPT !.uiFading = TRUE, !.flashActive = TRUE]
            /\ UNCHANGED <<portal, raf>>

\* Mutant: enterWorld plays the transition cue before its phase check.
EnterWorld_CueFirst ==
    IF app.currentPhase # "portal"
    THEN /\ audio' = Whoosh(audio)
         /\ UNCHANGED <<app, dom, portal, raf>>
    ELSE /\ audio' = AudioStarted(Whoosh(audio))
         /\ IF app.portal
            THEN /\ TransitionOut
                 /\ app' = [app EXCEPT !.currentPhase = "world",
                                       !.pc = "awaitTransition",
                                       !.awaited = Len(portal.calls) + 1]
                 /\ dom' = [dom EXCEPT !.uiFading = TRUE]
            ELSE /\ app' = [app EXCEPT !.currentPhase = "world",
                                       !.pc = "flashPeak",
                                       !.due = now + FlashPeakDelay]
                 /\ dom' = [dom EXCEPT !.uiFading = TRUE, !.flashActive = TRUE]
                 /\ UNCHANGED <<portal, raf>>

\* Mutant: a late call of enterWorld puts the phase back to 'portal'.
EnterWorld_Toggles ==
    IF app.currentPhase # "portal"
    THEN /\ app' = [app EXCEPT !.currentPhase = "portal"]
         /\ UNCHANGED <<dom, audio, portal, raf>>
    ELSE /\ audio' = AudioStarted(Whoosh(audio))
         /\ IF app.portal
            THEN /\ TransitionOut
                 /\ app' = [app EXCEPT !.currentPhase = "world",
                                       !.pc = "awaitTransition",
                                       !.awaited = Len(portal.calls) + 1]
                 /\ dom' = [dom EXCEPT !.uiFading = TRUE]
            ELSE /\ app' = [app EXCEPT !.currentPhase = "world",
                                       !.pc = "flashPeak",
                                       !.due = now + FlashPeakDelay]
                 /\ dom' = [dom EXCEPT !.uiFading = TRUE, !.flashActive = TRUE]
                 /\ UNCHANGED <<portal, raf>>

\* enterWorld up to its first await (the click listener of #enter-btn).
EnterWorld ==
    IF app.currentPhase # "portal"
    THEN UNCHANGED <<app, dom, audio, portal, raf>>
    ELSE /\ audio' = AudioStarted(Whoosh(audio))
         /\ IF app.portal
            THEN /\ TransitionOut
                 /\ app' = [app EXCEPT !.currentPhase = "world",
                                       !.pc = "awaitTransition",
                                       !.awaited = Len(portal.calls) + 1]
                 /\ dom' = [dom EXCEPT !.uiFading = TRUE]
            ELSE /\ app' = [app EXCEPT !.currentPhase = "world",
                                       !.pc = "flashPeak",
                                       !.due = now + FlashPeakDelay]
                 /\ dom' = [dom EXCEPT !.uiFading = TRUE, !.flashActive = TRUE]
                 /\ UNCHANGED <<portal, raf>>

\* The user clicks #enter-btn.
EnterClick ==
    /\ Quiet
    /\ obs.clicks < MaxClicks
    /\ EnterWorld
    /\ obs' = [(IF app.currentPhase = "portal"
                THEN Did(<<"cue", "ambientStart", "uiFade">>
                         \o IF app.portal THEN <<"transitionOut">>
                            ELSE <<"flashOn", "peakScheduled">>)
                ELSE obs)
               EXCEPT !.clicks = @ + 1,
                      !.flashSince = IF app.currentPhase = "portal" /\ ~app.portal
                                     THEN now ELSE @]
    /\ UNCHANGED <<world, win, gpu, now, scene>>

\* enterWorld resumes after `await this.portal.transitionOut()`.
AfterTransitionOut ==
    /\ ContinuationReady
    /\ dom' = [dom EXCEPT !.flashActive = TRUE]
    /\ app' = [app EXCEPT !.pc = "flashPeak", !.due = now + FlashPeakDelay]
    /\ obs' = [Did(<<"flashOn", "peakScheduled">>) EXCEPT !.flashSince = now]
    /\ UNCHANGED <<audio, portal, world, raf, win, gpu, now, scene>>

\* enterWorld resumes after the 150 ms timer.
AfterFlashPeak ==
    /\ Quiet
    /\ app.pc = "flashPeak"
    /\ now >= app.due
    /\ dom' = [dom EXCEPT !.worldShown = TRUE]
    /\ InitWorld
    /\ app' = [app EXCEPT !.world = TRUE, !.pc = "worldStart",
                          !.due = now + WorldStartDelay]
    /\ obs' = [Did(<<"worldShown", "initWorld", "destroyScheduled">>) EXCEPT !.worldCtors = @ + 1]
    /\ UNCHANGED <<audio, portal, win, gpu, now, scene>>

\* Mutant: the portal container is hidden but the controller is kept.
AfterWorldStart_KeepsPortal ==
    /\ Quiet
    /\ app.pc = "worldStart"
    /\ now >= app.due
    /\ dom' = [dom EXCEPT !.portalHidden = TRUE]
    /\ obs' = Did(<<"portalHidden", "holdScheduled">>)
    /\ app' = [app EXCEPT !.pc = "flashHold", !.due = now + FlashHoldDelay]
    /\ UNCHANGED <<audio, portal, world, raf, gpu, win, now, scene>>

\* enterWorld resumes after the 50 ms timer.
AfterWorldStart ==
    /\ Quiet
    /\ app.pc = "worldStart"
    /\ now >= app.due
    /\ dom' = [dom EXCEPT !.portalHidden = TRUE]
    /\ IF app.portal
       THEN /\ PortalDestroy
            /\ obs' = [Did(<<"portalHidden", "portalDestroy", "holdScheduled">>)
                         EXCEPT !.portalDestroys = @ + 1]
       ELSE /\ obs' = Did(<<"portalHidden", "holdScheduled">>)
            /\ UNCHANGED <<portal, raf, gpu>>
    /\ app' = [app EXCEPT !.portal = FALSE, !.pc = "flashHold",
                          !.due = now + FlashHoldDelay]
    /\ UNCHANGED <<audio, world, win, now, scene>>

\* Mutant: the ambient sound is stopped before the flash is removed.
AfterFlashHold_StopsFirst ==
    /\ Quiet
    /\ app.pc = "flashHold"
    /\ now >= app.due
    /\ dom' = [dom EXCEPT !.flashActive = FALSE, !.flashHidden = TRUE,
                          !.revealed = TRUE]
    /\ audio' = AudioStopped(audio)
    /\ app' = [app EXCEPT !.pc = "done"]
    /\ obs' = Did(<<"audioStop", "flashOff", "reveal">>)
    /\ UNCHANGED <<portal, world, raf, win, gpu, now, scene>>

\* Mutant: the last timer is not waited for.
AfterFlashHold_NotHeld ==
    /\ Quiet
    /\ app.pc = "flashHold"
    /\ dom' = [dom EXCEPT !.flashActive = FALSE, !.flashHidden = TRUE,
                          !.revealed = TRUE]
    /\ audio' = AudioStopped(audio)
    /\ app' = [app EXCEPT !.pc = "done"]
    /\ obs' = Did(<<"flashOff", "audioStop", "reveal">>)
    /\ UNCHANGED <<portal, world, raf, win, gpu, now, scene>>

\* enterWorld resumes after the 400 ms timer and runs to its end.
AfterFlashHold ==
    /\ Quiet
    /\ app.pc = "flashHold"
    /\ now >= app.due
    /\ dom' = [dom EXCEPT !.flashActive = FALSE, !.flashHidden = TRUE,
                          !.revealed = TRUE]
    /\ audio' = AudioStopped(audio)
    /\ app' = [app EXCEPT !.pc = "done"]
    /\ obs' = Did(<<"flashOff", "audioStop", "reveal">>)
    /\ UNCHANGED <<portal, world, raf, win, gpu, now, scene>>

\* A 'scroll' event on #scroll-content, whose extents the layout decides:
\* scrollTop never exceeds scrollHeight - clientHeight.
ScrollEvent ==
    /\ Quiet
    /\ app.world
    /\ \E height \in ClientHeight..(ClientHeight + MaxOverflow) :
       \E top \in 0..(height - ClientHeight) :
          /\ dom' = [dom EXCEPT !.scrollTop = top, !.scrollHeight = height]
          /\ LET scrollTop == top
                 scrollHeight == height - dom.clientHeight
                 progress == JsDiv(scrollTop, scrollHeight)
             IN  /\ world' = UpdateScroll(progress)
                 /\ obs' = [obs EXCEPT !.passed = progress]
    /\ UNCHANGED <<app, audio, portal, raf, win, gpu, now, scene>>

\* ------------------------------------------------- init(): scene content

\* const starCount = 2000
StarCount == 2000

\* const particleCount = 1200
ParticleCount == 1200

\* const cursorParticleCount = 30
CursorParticleCount == 30

\* Math.random(): a value in [0, 1), here one of RandomSteps evenly spaced ones.
RandomDraws == {Num(k, RandomSteps) : k \in 0..(RandomSteps - 1)}

\* sizes[i] = Math.random() * 1.5 + 0.3 (the cosmic particles' formula)
StarSize_ParticleFormula(r) == JsAdd(JsMul(r, Num(15, 10)), Num(3, 10))

\* starSizes[i] = Math.random() * 1.2 + 0.2
StarSize(r) == JsAdd(JsMul(r, Num(12, 10)), Num(2, 10))

\* const size = 0.2 + Math.random() * 0.6
SolidSize(r) == JsAdd(Num(2, 10), JsMul(r, Num(6, 10)))

\* const r = 4 + Math.random() * 18
ParticleRadius(r) == JsAdd(Whole(4), JsMul(r, Whole(18)))

\* cursorPositions[...] = (Math.random() - 0.5) * 0.4
CursorCoordinate(r) == JsMul(JsSub(r, Num(1, 2)), Num(4, 10))

\* No init() is running: constructors are single steps everywhere but in BuildSpec.
NoInit ==
    [owner |-> "none", pc |-> "idle",
     stars |-> 0, starSize |-> <<>>, lines |-> 0, lineZ |-> <<>>, solids |-> 0, solidSize |-> <<>>,
     fog |-> 0, rings |-> <<>>, particles |-> 0, radius |-> <<>>,
     cursor |-> 0, cursorPosition |-> <<>>]

\* init() of a controller, at its first generating loop.
InitEntered(owner) ==
    [NoInit EXCEPT !.owner = owner,
                   !.pc = IF owner = "world" THEN "stars" ELSE "rings"]

\* ---------------------------------------------------------- initial state

\* new PortalScene(canvas): the constructor, init() and its first animate().
PortalConstructed ==
    [exists |-> TRUE, isDestroyed |-> FALSE, isTransitioning |-> FALSE, animationId |-> 1,
     clockStart |-> 0, progress |-> 0, renders |-> 1,
     cameraZ |-> Whole(5), fov |-> Whole(60),
     mouse |-> Vec2(Zero, Zero), targetMouse |-> Vec2(Zero, Zero), moves |-> 0,
     followed |-> FALSE, look |-> AnimatedLook(LookBuilt, 0, Vec2(Zero, Zero)),
     calls |-> <<>>, aspect |-> Aspect(<<1920, 1080>>), size |-> <<1920, 1080>>]

NoDisposals == [portal |-> 0, world |-> 0]

\* No pointer event has been dispatched yet.
NoPointer == [kind |-> "none", x |-> 0, y |-> 0]

\* A second run of the same PortalScene, on the same clock but with frames
\* of its own, kept to compare two runs: the frames it has had and its look.
NoTwin == [frames |-> 0, look |-> AnimatedLook(LookBuilt, 0, Vec2(Zero, Zero))]

\* The page once DOMContentLoaded has run new GallantExperience().
Init ==
    /\ app = [currentPhase |-> "portal", portal |-> TRUE, world |-> FALSE,
              pc |-> "idle", awaited |-> 0, due |-> 0]
    /\ dom = [flashActive |-> FALSE, flashHidden |-> FALSE, worldShown |-> FALSE,
              portalHidden |-> FALSE, uiFading |-> FALSE, revealed |-> FALSE,
              scrollTop |-> 0, scrollHeight |-> ClientHeight,
              clientHeight |-> ClientHeight]
    /\ audio = NoAudio
    /\ portal = PortalConstructed
    /\ world = NoWorld
    /\ raf = [pending |-> <<Callback(1, "animate", 0)>>, running |-> <<>>]
    /\ win = <<1920, 1080>>
    /\ gpu = NoDisposals
    /\ now = 0
    /\ scene = NoInit
    /\ obs = [clicks |-> 0, portalDestroys |-> 0, worldDestroys |-> 0,
              worldCtors |-> 0, steps |-> {}, order |-> <<>>,
              flashSince |-> 0, passed |-> Zero,
              twin |-> NoTwin, pointer |-> NoPointer, userData |-> NoSolid.userData]

Next ==
    \/ EnterClick
    \/ AfterTransitionOut
    \/ AfterFlashPeak
    \/ AfterWorldStart
    \/ AfterFlashHold
    \/ Resize
    \/ Tick
    \/ BeginFrame
    \/ RunCallback

Spec == Init /\ [][Next]_vars

\* The page in a window that is not resized.
SequenceNext ==
    \/ EnterClick
    \/ AfterTransitionOut
    \/ AfterFlashPeak
    \/ AfterWorldStart
    \/ AfterFlashHold
    \/ Tick
    \/ BeginFrame
    \/ RunCallback

\* The display keeps producing frames, the clock keeps running, a microtask
\* runs as soon as it is ready, and a timer that is due fires although
\* frames keep being produced in between.
SequenceLive ==
    /\ Init
    /\ [][SequenceNext]_vars
    /\ WF_vars(Tick)
    /\ WF_vars(BeginFrame)
    /\ WF_vars(RunCallback)
    /\ WF_vars(AfterTransitionOut)
    /\ SF_vars(AfterFlashPeak)
    /\ SF_vars(AfterWorldStart)
    /\ SF_vars(AfterFlashHold)

\* enterWorld resumes after the 150 ms timer and new WorldScene(canvas)
\* throws (the WebGLRenderer cannot create its context): the exception leaves
\* initWorld and enterWorld, whose promise is rejected; nothing after
\* this.initWorld() runs and no timer is set.
AfterFlashPeakThrows ==
    /\ Quiet
    /\ app.pc = "flashPeak"
    /\ now >= app.due
    /\ dom' = [dom EXCEPT !.worldShown = TRUE]
    /\ app' = [app EXCEPT !.pc = "rejected"]
    /\ obs' = Did(<<"worldShown", "initWorldThrew">>)
    /\ UNCHANGED <<audio, portal, world, raf, win, gpu, now, scene>>

\* The page on a machine where constructing the WorldScene may fail.
FailNext == SequenceNext \/ AfterFlashPeakThrows

FailLive ==
    /\ Init
    /\ [][FailNext]_vars
    /\ WF_vars(Tick)
    /\ WF_vars(BeginFrame)
    /\ WF_vars(RunCallback)
    /\ WF_vars(EnterClick)
    /\ WF_vars(AfterTransitionOut)
    /\ SF_vars(AfterFlashPeak \/ AfterFlashPeakThrows)
    /\ SF_vars(AfterWorldStart)
    /\ SF_vars(AfterFlashHold)

\* The same page with the scroll events of #scroll-content.
PageNext == Next \/ ScrollEvent

PageSpec == Init /\ [][PageNext]_vars

\* ------------------------------------------- the controllers on their own

(***************************************************************************)
(* SceneSpec: one scene controller, a PortalScene or a WorldScene, driven   *)
(* through its public interface (transitionOut, destroy) by an arbitrary    *)
(* client, with the display and the window as above.  GallantExperience is  *)
(* absent.                                                                  *)
(***************************************************************************)

NoPortal ==
    [PortalConstructed EXCEPT !.exists = FALSE, !.animationId = 0, !.renders = 0]

\* A client has constructed a PortalScene, or a WorldScene.
SceneInit ==
    /\ app = [currentPhase |-> "portal", portal |-> FALSE, world |-> FALSE,
              pc |-> "idle", awaited |-> 0, due |-> 0]
    /\ dom = [flashActive |-> FALSE, flashHidden |-> FALSE, worldShown |-> FALSE,
              portalHidden |-> FALSE, uiFading |-> FALSE, revealed |-> FALSE,
              scrollTop |-> 0, scrollHeight |-> ClientHeight,
              clientHeight |-> ClientHeight]
    /\ audio = NoAudio
    /\ win = <<1920, 1080>>
    /\ gpu = NoDisposals
    /\ now = 0
    /\ scene = NoInit
    /\ \/ /\ portal = PortalConstructed
          /\ world = NoWorld
          /\ raf = [pending |-> <<Callback(1, "animate", 0)>>, running |-> <<>>]
          /\ obs = [clicks |-> 0, portalDestroys |-> 0, worldDestroys |-> 0,
                    worldCtors |-> 0, steps |-> {}, order |-> <<>>,
              flashSince |-> 0, passed |-> Zero,
              twin |-> NoTwin, pointer |-> NoPointer, userData |-> NoSolid.userData]
       \/ /\ portal = NoPortal
          /\ world = WorldConstructed
          /\ raf = [pending |-> <<Callback(2, "worldAnimate", 0)>>, running |-> <<>>]
          /\ obs = [clicks |-> 0, portalDestroys |-> 0, worldDestroys |-> 0,
                    worldCtors |-> 1, steps |-> {}, order |-> <<>>,
              flashSince |-> 0, passed |-> Zero,
              twin |-> NoTwin, pointer |-> NoPointer, userData |-> NoSolid.userData]

\* The client calls portal.transitionOut().
CallTransitionOut ==
    /\ Quiet
    /\ portal.exists
    /\ Len(portal.calls) < MaxCalls
    /\ TransitionOut
    /\ UNCHANGED <<app, dom, audio, world, win, gpu, now, obs, scene>>

\* The client calls portal.destroy().
CallPortalDestroy ==
    /\ Quiet
    /\ portal.exists
    /\ obs.portalDestroys < MaxDestroy
    /\ PortalDestroy
    /\ obs' = [obs EXCEPT !.portalDestroys = @ + 1]
    /\ UNCHANGED <<app, dom, audio, world, win, now, scene>>

\* The client calls world.destroy().
CallWorldDestroy ==
    /\ Quiet
    /\ world.exists
    /\ obs.worldDestroys < MaxDestroy
    /\ WorldDestroy
    /\ obs' = [obs EXCEPT !.worldDestroys = @ + 1]
    /\ UNCHANGED <<app, dom, audio, portal, win, now, scene>>

SceneNext ==
    \/ CallTransitionOut
    \/ CallPortalDestroy
    \/ CallWorldDestroy
    \/ Resize
    \/ Tick
    \/ BeginFrame
    \/ RunCallback

SceneSpec == SceneInit /\ [][SceneNext]_vars

\* The display keeps producing frames and the clock keeps running.
SceneLive ==
    /\ SceneSpec
    /\ WF_vars(Tick)
    /\ WF_vars(BeginFrame)
    /\ WF_vars(RunCallback)

(***************************************************************************)
(* CameraSpec: a WorldScene whose client calls updateScroll with the       *)
(* values of ScrollValues, and destroy.                                    *)
(***************************************************************************)

\* Progress values a client passes: in range, out of range, non-finite.
ScrollValues == {Zero, Num(1, 2), Whole(1), Whole(2), NaN, Infinity}

CameraInit == SceneInit /\ world.exists

\* The client calls world.updateScroll(p).
CallUpdateScroll ==
    /\ Quiet
    /\ \E p \in ScrollValues :
          /\ world' = UpdateScroll(p)
          /\ obs' = [obs EXCEPT !.passed = p]
    /\ UNCHANGED <<app, dom, audio, portal, raf, win, gpu, now, scene>>

CameraNext ==
    \/ CallUpdateScroll
    \/ CallWorldDestroy
    \/ Tick
    \/ BeginFrame
    \/ RunCallback

CameraSpec == CameraInit /\ [][CameraNext]_vars

\* The display keeps producing frames and the clock keeps running.
CameraLive ==
    /\ CameraSpec
    /\ WF_vars(Tick)
    /\ WF_vars(BeginFrame)
    /\ WF_vars(RunCallback)

\* Progress values of a scroll container: scrollTop / (scrollHeight -
\* clientHeight) with 0 <= scrollTop <= scrollHeight - clientHeight.
UnitScrollValues == {Zero, Num(1, 2), Whole(1)}

\* The client calls world.updateScroll(p) with p in [0, 1].
CallUpdateScrollInRange ==
    /\ Quiet
    /\ \E p \in UnitScrollValues :
          /\ world' = UpdateScroll(p)
          /\ obs' = [obs EXCEPT !.passed = p]
    /\ UNCHANGED <<app, dom, audio, portal, raf, win, gpu, now, scene>>

UnitNext ==
    \/ CallUpdateScrollInRange
    \/ Tick
    \/ BeginFrame
    \/ RunCallback

\* A WorldScene whose client passes only values of [0, 1].
UnitSpec == CameraInit /\ [][UnitNext]_vars

(***************************************************************************)
(* PointerSpec: one scene controller and a user who moves the mouse.       *)
(***************************************************************************)

\* window 'mousemove': both controllers' listeners run.  The pointer is at
\* the left edge, a quarter in, or the right edge; at the top or the bottom.
MouseMove ==
    /\ Quiet
    /\ \E x \in {0, win[1] \div 4, win[1]}, y \in {0, win[2]} :
          /\ portal' = PortalMouseMoved(x, y)
          /\ world' = WorldMouseMoved(x, y)
          /\ obs' = [obs EXCEPT !.pointer = [kind |-> "mousemove", x |-> x, y |-> y]]
    /\ UNCHANGED <<app, dom, audio, raf, win, gpu, now, scene>>

PointerNext ==
    \/ MouseMove
    \/ Tick
    \/ BeginFrame
    \/ RunCallback

PointerSpec == SceneInit /\ [][PointerNext]_vars

(***************************************************************************)
(* TouchSpec: one scene controller and a user who moves the mouse or, on a  *)
(* touch screen, a finger.                                                 *)
(***************************************************************************)

\* A 'touchmove' event on the window, its first touch at (x, y).
TouchMove ==
    /\ Quiet
    /\ \E x \in {0, win[1] \div 4, win[1]}, y \in {0, win[2]} :
          /\ portal' = PortalTouchMoved(x, y)
          /\ world' = WorldTouchMoved(x, y)
          /\ obs' = [obs EXCEPT !.pointer = [kind |-> "touchmove", x |-> x, y |-> y]]
    /\ UNCHANGED <<app, dom, audio, raf, win, gpu, now, scene>>

TouchNext ==
    \/ TouchMove
    \/ MouseMove
    \/ Tick
    \/ BeginFrame
    \/ RunCallback

TouchSpec == SceneInit /\ [][TouchNext]_vars

(***************************************************************************)
(* GridSpec: a WorldScene left to run for many seconds.                    *)
(***************************************************************************)

\* Time passes, in seconds.
SlowTick ==
    /\ now < MaxGridTime
    /\ \E dt \in GridTickLengths : now' = now + dt
    /\ UNCHANGED <<app, dom, audio, portal, world, raf, win, gpu, obs, scene>>

GridNext ==
    \/ SlowTick
    \/ BeginFrame
    \/ RunCallback

GridSpec == CameraInit /\ [][GridNext]_vars

(***************************************************************************)
(* SolidSpec: a WorldScene whose floating solids are followed.             *)
(***************************************************************************)

\* The Math.random() draws of the followed solid: the least and the greatest.
SolidDraws == {Zero, Num(RandomSteps - 1, RandomSteps)}

\* new WorldScene(canvas), the followed solid built from six draws and
\* animated once by the constructor's animate().
SolidInit ==
    /\ app = [currentPhase |-> "portal", portal |-> FALSE, world |-> FALSE,
              pc |-> "idle", awaited |-> 0, due |-> 0]
    /\ dom = [flashActive |-> FALSE, flashHidden |-> FALSE, worldShown |-> FALSE,
              portalHidden |-> FALSE, uiFading |-> FALSE, revealed |-> FALSE,
              scrollTop |-> 0, scrollHeight |-> ClientHeight,
              clientHeight |-> ClientHeight]
    /\ audio = NoAudio
    /\ portal = NoPortal
    /\ raf = [pending |-> <<Callback(2, "worldAnimate", 0)>>, running |-> <<>>]
    /\ win = <<1920, 1080>>
    /\ gpu = NoDisposals
    /\ now = 0
    /\ scene = NoInit
    /\ \E x, y, floatSpeed, rotSpeed, phase, floatAmplitude \in SolidDraws :
          LET built == SolidBuilt(x, y, floatSpeed, rotSpeed, phase, floatAmplitude)
          IN  /\ world = [WorldConstructed EXCEPT
                             !.followed = TRUE,
                             !.solid = SolidAnimated(built, 0)]
              /\ obs = [clicks |-> 0, portalDestroys |-> 0, worldDestroys |-> 0,
                        worldCtors |-> 1, steps |-> {}, order |-> <<>>,
                        flashSince |-> 0, passed |-> Zero,
                        twin |-> NoTwin, pointer |-> NoPointer,
                        userData |-> built.userData]

SolidNext ==
    \/ Tick
    \/ BeginFrame
    \/ RunCallback

SolidSpec == SolidInit /\ [][SolidNext]_vars

(***************************************************************************)
(* AudioSpec: an AudioSystem driven by a client, and the timers of stop(). *)
(***************************************************************************)

\* A cleanup timer of stop() has come due.
CleanupDue == \E due \in audio.timers : due <= now

AudioOnly == UNCHANGED <<app, dom, portal, world, raf, win, gpu, now, obs, scene>>

\* new AudioSystem(), and no scene controller.
AudioInit ==
    /\ app = [currentPhase |-> "portal", portal |-> FALSE, world |-> FALSE,
              pc |-> "idle", awaited |-> 0, due |-> 0]
    /\ dom = [flashActive |-> FALSE, flashHidden |-> FALSE, worldShown |-> FALSE,
              portalHidden |-> FALSE, uiFading |-> FALSE, revealed |-> FALSE,
              scrollTop |-> 0, scrollHeight |-> ClientHeight,
              clientHeight |-> ClientHeight]
    /\ audio = NoAudio
    /\ portal = NoPortal
    /\ world = NoWorld
    /\ raf = [pending |-> <<>>, running |-> <<>>]
    /\ win = <<1920, 1080>>
    /\ gpu = NoDisposals
    /\ now = 0
    /\ scene = NoInit
    /\ obs = [clicks |-> 0, portalDestroys |-> 0, worldDestroys |-> 0,
              worldCtors |-> 0, steps |-> {}, order |-> <<>>,
              flashSince |-> 0, passed |-> Zero,
              twin |-> NoTwin, pointer |-> NoPointer, userData |-> NoSolid.userData]

CallStart ==
    /\ audio.starts < MaxStarts
    /\ audio' = AudioStarted(audio)
    /\ AudioOnly

CallStop ==
    /\ Cardinality(audio.timers) < MaxStarts
    /\ audio' = AudioStopped(audio)
    /\ AudioOnly

CallToggle ==
    /\ audio.starts < MaxStarts
    /\ Cardinality(audio.timers) < MaxStarts
    /\ audio' = AudioToggled(audio)
    /\ AudioOnly

CallWhoosh ==
    /\ audio' = Whoosh(audio)
    /\ AudioOnly

CallBlip ==
    /\ audio' = Blip(audio)
    /\ AudioOnly

\* A due timer of stop() runs its callback.
AudioCleanup ==
    /\ \E due \in audio.timers :
          /\ due <= now
          /\ audio' = AudioCleaned(audio, due)
    /\ AudioOnly

\* Time passes, unless a timer is due.
AudioTick == ~CleanupDue /\ SlowTick

AudioNext ==
    \/ CallStart
    \/ CallStop
    \/ CallToggle
    \/ CallWhoosh
    \/ CallBlip
    \/ AudioCleanup
    \/ AudioTick

AudioSpec == AudioInit /\ [][AudioNext]_vars

(***************************************************************************)
(* RingSpec: two runs of a PortalScene in its Active state, whose displays  *)
(* produce their frames at different moments of the same clock, each frame  *)
(* later than the one before.  The look of both is followed.                *)
(***************************************************************************)

RingInit ==
    /\ app = [currentPhase |-> "portal", portal |-> FALSE, world |-> FALSE,
              pc |-> "idle", awaited |-> 0, due |-> 0]
    /\ dom = [flashActive |-> FALSE, flashHidden |-> FALSE, worldShown |-> FALSE,
              portalHidden |-> FALSE, uiFading |-> FALSE, revealed |-> FALSE,
              scrollTop |-> 0, scrollHeight |-> ClientHeight,
              clientHeight |-> ClientHeight]
    /\ audio = NoAudio
    /\ portal = [PortalConstructed EXCEPT !.followed = TRUE]
    /\ world = NoWorld
    /\ raf = [pending |-> <<Callback(1, "animate", 0)>>, running |-> <<>>]
    /\ win = <<1920, 1080>>
    /\ gpu = NoDisposals
    /\ now = 0
    /\ scene = NoInit
    /\ obs = [clicks |-> 0, portalDestroys |-> 0, worldDestroys |-> 0,
              worldCtors |-> 0, steps |-> {}, order |-> <<>>,
              flashSince |-> 0, passed |-> Zero,
              twin |-> NoTwin, pointer |-> NoPointer, userData |-> NoSolid.userData]

\* A frame of the second run: its animate() at the elapsed time of the clock.
TwinFrame ==
    /\ obs.twin.frames < MaxMoves
    /\ PortalElapsed > obs.twin.look.time
    /\ obs' = [obs EXCEPT !.twin.frames = @ + 1,
                          !.twin.look = AnimatedLook(@, PortalElapsed, PortalPointer)]
    /\ UNCHANGED <<app, dom, audio, portal, world, raf, win, gpu, now, scene>>

\* A frame of the first run.
LaterFrame ==
    /\ PortalElapsed > portal.look.time
    /\ BeginFrame

RingNext ==
    \/ TwinFrame
    \/ SlowTick
    \/ LaterFrame
    \/ RunCallback

RingSpec == RingInit /\ [][RingNext]_vars

(***************************************************************************)
(* GlowSpec: a PortalScene whose look is followed, a user who moves the     *)
(* mouse along the horizontal centre line of the window, and a client that *)
(* calls transitionOut.                                                    *)
(***************************************************************************)

\* A 'mousemove' event at mid height, at the left or the right edge.
MouseMoveAcross ==
    /\ Quiet
    /\ ~portal.isTransitioning
    /\ \E x \in {0, win[1]} :
          /\ PointerTarget(x, win[2] \div 2) # portal.targetMouse
          /\ portal' = PortalMouseMoved(x, win[2] \div 2)
    /\ UNCHANGED <<app, dom, audio, world, raf, win, gpu, now, obs, scene>>

GlowNext ==
    \/ MouseMoveAcross
    \/ CallTransitionOut
    \/ Tick
    \/ BeginFrame
    \/ RunCallback

GlowSpec == RingInit /\ [][GlowNext]_vars

(***************************************************************************)
(* BuildSpec: init() of one controller, one loop iteration per step.  Each  *)
(* Math.random() call draws from RandomDraws.  Of every generated entry    *)
(* the model keeps the quantity whose range is documented (a star's size,  *)
(* a solid's size, a cosmic particle's radius, a cursor particle's         *)
(* position); scene holds the count of each collection and the entry       *)
(* generated last.                                                         *)
(***************************************************************************)

BuildInit ==
    /\ app = [currentPhase |-> "portal", portal |-> FALSE, world |-> FALSE,
              pc |-> "idle", awaited |-> 0, due |-> 0]
    /\ dom = [flashActive |-> FALSE, flashHidden |-> FALSE, worldShown |-> FALSE,
              portalHidden |-> FALSE, uiFading |-> FALSE, revealed |-> FALSE,
              scrollTop |-> 0, scrollHeight |-> ClientHeight,
              clientHeight |-> ClientHeight]
    /\ audio = NoAudio
    /\ portal = NoPortal
    /\ world = NoWorld
    /\ raf = [pending |-> <<>>, running |-> <<>>]
    /\ win = <<1920, 1080>>
    /\ gpu = NoDisposals
    /\ now = 0
    /\ obs = [clicks |-> 0, portalDestroys |-> 0, worldDestroys |-> 0,
              worldCtors |-> 0, steps |-> {}, order |-> <<>>,
              flashSince |-> 0, passed |-> Zero,
              twin |-> NoTwin, pointer |-> NoPointer, userData |-> NoSolid.userData]
    /\ \E owner \in {"portal", "world"} : scene = InitEntered(owner)

Untouched == UNCHANGED <<app, dom, audio, portal, world, raf, win, gpu, now, obs>>

\* for (let i = 0; i < starCount; i++) { ... starSizes[i] = ... }
AddStar ==
    /\ scene.pc = "stars"
    /\ scene.stars < StarCount
    /\ \E r \in RandomDraws :
          scene' = [scene EXCEPT !.stars = @ + 1, !.starSize = <<StarSize(r)>>]
    /\ Untouched

\* Mutant: adjacent grid lines lie one scroll modulus apart.
LineZ_ModulusApart(i) == Whole(i * GridModulus)

\* The z of the grid line running along x in pass i:
\* i * (gridSize / gridDivisions).
LineZ(i) == JsMul(Whole(i), Num(GridSize, GridDivisions))

\* The grid loop's index i, which starts at -gridDivisions; a pass adds two lines.
GridIndex == scene.lines \div 2 - GridDivisions

\* for (let i = -gridDivisions; i <= gridDivisions; i++) { ... }
AddGridLines ==
    /\ scene.pc = "grid"
    /\ GridIndex <= GridDivisions
    /\ scene' = [scene EXCEPT !.lines = @ + 2, !.lineZ = <<LineZ(GridIndex)>>]
    /\ Untouched

\* for (let i = 0; i < 18; i++) { const size = ...; ... }
AddSolid ==
    /\ scene.pc = "solids"
    /\ scene.solids < SolidCount
    /\ \E r \in RandomDraws :
          scene' = [scene EXCEPT !.solids = @ + 1, !.solidSize = <<SolidSize(r)>>]
    /\ Untouched

\* for (let i = 0; i < 8; i++) { ... this.fogPlanes.add(fog) }
AddFogPlane ==
    /\ scene.pc = "fog"
    /\ scene.fog < FogCount
    /\ scene' = [scene EXCEPT !.fog = @ + 1]
    /\ Untouched

\* ringConfigs.forEach: this.rings.add(ring), once the ring before has its dots
AddRing ==
    /\ scene.pc = "rings"
    /\ Len(scene.rings) < RingCount
    /\ IF scene.rings = <<>> THEN TRUE ELSE scene.rings[Len(scene.rings)] = DotCount
    /\ scene' = [scene EXCEPT !.rings = Append(@, 0)]
    /\ Untouched

\* for (let i = 0; i < dotCount; i++) { ... ring.add(dot) }
AddDot ==
    /\ scene.pc = "rings"
    /\ scene.rings # <<>>
    /\ scene.rings[Len(scene.rings)] < DotCount
    /\ scene' = [scene EXCEPT !.rings[Len(scene.rings)] = @ + 1]
    /\ Untouched

\* for (let i = 0; i < particleCount; i++) { ... const r = ...; ... }
AddParticle ==
    /\ scene.pc = "particles"
    /\ scene.particles < ParticleCount
    /\ \E r \in RandomDraws :
          scene' = [scene EXCEPT !.particles = @ + 1, !.radius = <<ParticleRadius(r)>>]
    /\ Untouched

\* for (let i = 0; i < cursorParticleCount; i++): one step per coordinate,
\* cursorPositions[i * 3 + k] = ..., the particle counted at its third.
AddCursorCoordinate ==
    /\ scene.pc = "cursor"
    /\ scene.cursor < CursorParticleCount
    /\ \E r \in RandomDraws :
          LET begun == IF Len(scene.cursorPosition) = 3 THEN <<>>
                       ELSE scene.cursorPosition
              filled == Append(begun, CursorCoordinate(r))
          IN scene' = [scene EXCEPT !.cursorPosition = filled,
                                    !.cursor = IF Len(filled) = 3 THEN @ + 1 ELSE @]
    /\ Untouched

\* The loop at scene.pc has run out.
LoopOver ==
    \/ scene.pc = "stars" /\ scene.stars >= StarCount
    \/ scene.pc = "grid" /\ GridIndex > GridDivisions
    \/ scene.pc = "solids" /\ scene.solids >= SolidCount
    \/ scene.pc = "fog" /\ scene.fog >= FogCount
    \/ /\ scene.pc = "rings"
       /\ Len(scene.rings) >= RingCount
       /\ scene.rings[Len(scene.rings)] >= DotCount
    \/ scene.pc = "particles" /\ scene.particles >= ParticleCount
    \/ scene.pc = "cursor" /\ scene.cursor >= CursorParticleCount

\* The statements of init() in order: what follows the loop at pc.
AfterLoop(pc) ==
    CASE pc = "stars" -> "grid"
      [] pc = "grid" -> "solids"
      [] pc = "solids" -> "fog"
      [] pc = "fog" -> "animate"
      [] pc = "rings" -> "particles"
      [] pc = "particles" -> "cursor"
      [] pc = "cursor" -> "animate"

LeaveLoop ==
    /\ LoopOver
    /\ scene' = [scene EXCEPT !.pc = AfterLoop(scene.pc)]
    /\ Untouched

\* this.animate() closing init(): the controller is constructed.
InitDone ==
    /\ scene.pc = "animate"
    /\ scene' = [scene EXCEPT !.pc = "built"]
    /\ IF scene.owner = "world"
       THEN /\ world' = WorldConstructed
            /\ raf' = [pending |-> <<Callback(2, "worldAnimate", 0)>>, running |-> <<>>]
            /\ obs' = [obs EXCEPT !.worldCtors = @ + 1]
            /\ UNCHANGED portal
       ELSE /\ portal' = PortalConstructed
            /\ raf' = [pending |-> <<Callback(1, "animate", 0)>>, running |-> <<>>]
            /\ UNCHANGED <<world, obs>>
    /\ UNCHANGED <<app, dom, audio, win, gpu, now>>

BuildNext ==
    \/ AddStar
    \/ AddGridLines
    \/ AddSolid
    \/ AddFogPlane
    \/ AddRing
    \/ AddDot
    \/ AddParticle
    \/ AddCursorCoordinate
    \/ LeaveLoop
    \/ InitDone

BuildSpec == BuildInit /\ [][BuildNext]_vars

\* ----------------------------------------------------------------- claims

\* C1: however many 'enter' clicks arrive, and whenever, PortalScene.destroy()
\* is called at most once and a WorldScene is constructed at most once, and
\* when the sequence has run to its end each has happened exactly once.
C1_EnterOnce ==
    /\ obs.portalDestroys <= 1
    /\ obs.worldCtors <= 1
    /\ app.pc = "done" => obs.portalDestroys = 1 /\ obs.worldCtors = 1

\* Two clicks were received and the sequence has run to its end.
C1_Witness ==
    /\ obs.clicks >= 2
    /\ app.pc = "done"
    /\ obs.portalDestroys = 1
    /\ obs.worldCtors = 1

\* C2: a click received while currentPhase is no longer 'portal' changes
\* nothing: no orchestrator state, no audio, no portal call, no frame
\* registration, no timer, no flash change.
C2_LateClickIsNoOp ==
    [][(obs'.clicks # obs.clicks /\ app.currentPhase # "portal")
         => /\ UNCHANGED <<app, dom, audio, portal, world, raf, win, gpu, now, scene>>
            /\ obs' = [obs EXCEPT !.clicks = obs'.clicks]]_vars

\* A second click has been received, necessarily after the phase changed.
C2_Witness == obs.clicks >= 2 /\ app.currentPhase = "world"

\* What a frame callback of the portal may update: every field but the
\* promises of the transitionOut() calls.
PortalSceneState == [portal EXCEPT !.calls = <<>>]

\* C3: a frame callback that fires on a destroyed controller (the animate
\* loop or the portal's transitionAnimate, queued before destroy() or not)
\* updates no scene state, renders nothing and registers no further frame.
C3_NoFrameAfterDestroy ==
    [][(raf.running # <<>> /\ raf'.running = Tail(raf.running))
         => /\ (/\ Head(raf.running).fn \in {"animate", "transitionAnimate"}
                /\ portal.isDestroyed)
               => /\ PortalSceneState' = PortalSceneState
                  /\ raf'.pending = raf.pending
            /\ (Head(raf.running).fn = "worldAnimate" /\ world.isDestroyed)
               => /\ world' = world
                  /\ raf'.pending = raf.pending]_vars

\* A transitionAnimate callback that was registered before destroy() has
\* fired after it: the call was resolved short of full progress.
C3_Witness ==
    /\ portal.isDestroyed
    /\ \E c \in 1..Len(portal.calls) :
          /\ portal.calls[c].started
          /\ portal.calls[c].signals = 1
          /\ portal.progress < Duration

\* C4: once destroy() has been called on a controller, every GPU-side
\* resource the controller owns has received exactly one dispose() call.
C4_ReleasedExactlyOnce ==
    /\ obs.portalDestroys >= 1 => \A r \in PortalResources : PortalDisposeCalls(r) = 1
    /\ obs.worldDestroys >= 1 => \A r \in WorldResources : WorldDisposeCalls(r) = 1

\* The resources of a controller that no dispose() call has reached.
PortalHeld == {r \in PortalResources : PortalDisposeCalls(r) = 0}
WorldHeld == {r \in WorldResources : WorldDisposeCalls(r) = 0}

\* C5: a destroy() call on a controller that is already destroyed changes
\* neither the controller, nor the frames registered with the display, nor
\* which resources are held, nor anything else of the page.
C5_DestroyIdempotent ==
    [][/\ (obs'.portalDestroys # obs.portalDestroys /\ portal.isDestroyed)
          => /\ UNCHANGED <<app, dom, audio, portal, world, raf, win, now, scene>>
             /\ gpu'.world = gpu.world
             /\ PortalHeld' = PortalHeld
       /\ (obs'.worldDestroys # obs.worldDestroys /\ world.isDestroyed)
          => /\ UNCHANGED <<app, dom, audio, portal, world, raf, win, now, scene>>
             /\ gpu'.portal = gpu.portal
             /\ WorldHeld' = WorldHeld]_vars

\* A portal that is transitioning has been destroyed twice.
C5_Witness == obs.portalDestroys >= 2 /\ portal.isTransitioning

\* The promise enterWorld awaits has been resolved.
AwaitedResolved ==
    /\ app.awaited \in 1..Len(portal.calls)
    /\ portal.calls[app.awaited].resolved

\* C6: nothing that follows the await in enterWorld (flash on, world
\* container shown, WorldScene constructed, portal hidden and destroyed,
\* flash off, audio stopped, world revealed) has happened while the promise
\* of transitionOut() is unresolved.
C6_NothingBeforeResolution ==
    (\/ dom.flashActive
     \/ dom.worldShown
     \/ world.exists
     \/ dom.portalHidden
     \/ obs.portalDestroys > 0
     \/ dom.flashHidden
     \/ dom.revealed
     \/ obs.steps \cap {"flashOn", "worldShown", "initWorld", "portalHidden",
                        "portalDestroy", "flashOff", "audioStop", "reveal"} # {}
     \/ app.pc \in {"flashPeak", "worldStart", "flashHold", "done"})
    => AwaitedResolved

\* The sequence has run past the await to its end.
C6_Witness == app.pc = "done" /\ dom.revealed /\ AwaitedResolved

\* C7: the promise of every transitionOut() call is resolved only when the
\* transition progress has reached 1.
C7_ResolvedOnlyAtFullProgress ==
    \A c \in 1..Len(portal.calls) :
        portal.calls[c].resolved => portal.progress = Duration

\* C8: resolve() of a started transition is invoked at most once, and, the
\* display producing frames, it is invoked.
C8_SignalledExactlyOnce ==
    /\ [](\A c \in 1..Len(portal.calls) : portal.calls[c].signals <= 1)
    /\ \A c \in 1..(MaxCalls + 1) :
          (c <= Len(portal.calls) /\ portal.calls[c].started)
             ~> (c <= Len(portal.calls) /\ portal.calls[c].signals = 1)

\* A transition has been started and its completion signalled.
C8_Witness ==
    \E c \in 1..Len(portal.calls) :
        portal.calls[c].started /\ portal.calls[c].signals = 1

\* A frame callback returns and it was transitionAnimate on a live portal.
TransitionFrame ==
    /\ raf.running # <<>>
    /\ raf'.running = Tail(raf.running)
    /\ Head(raf.running).fn = "transitionAnimate"
    /\ ~portal.isDestroyed

TransitionRegistered ==
    \E i \in 1..Len(raf.pending) : raf.pending[i].fn = "transitionAnimate"

\* C9: the transition progress never decreases and never exceeds 1; a
\* transition frame leaves it below 1 while less than the duration has
\* elapsed, and at exactly 1 with no further transition frame registered
\* once the duration has elapsed.
C9_ProgressMonotoneToOne ==
    /\ [](portal.progress <= Duration)
    /\ [][portal'.progress >= portal.progress]_vars
    /\ [][TransitionFrame =>
            LET elapsed == PortalElapsed
                           - portal.calls[Head(raf.running).call].startTime
            IN  /\ elapsed < Duration
                   => portal'.progress < Duration /\ TransitionRegistered'
                /\ elapsed >= Duration
                   => portal'.progress = Duration /\ ~TransitionRegistered']_vars

\* A transition has completed on a frame that came later than its duration.
C9_Witness ==
    /\ ~portal.isDestroyed
    /\ portal.progress = Duration
    /\ ~TransitionRegistered
    /\ \E c \in 1..Len(portal.calls) :
          /\ portal.calls[c].signals = 1
          /\ now - portal.calls[c].startTime > Duration

\* C10: after a scroll event that found scrollHeight equal to clientHeight,
\* the progress handed to the WorldScene is 0.
C10_NoOverflowGivesZero ==
    (world.exists /\ dom.scrollHeight = dom.clientHeight)
    => world.scrollProgress = Zero

\* C11: the phase starts as 'portal', changes only from 'portal' to 'world',
\* and so never leaves 'world'.
C11_PhaseOneWay ==
    /\ app.currentPhase = "portal"
    /\ [][app'.currentPhase # app.currentPhase
            => app.currentPhase = "portal" /\ app'.currentPhase = "world"]_vars

\* The phase is 'world', the sequence has ended and a later click came.
C11_Witness ==
    app.currentPhase = "world" /\ app.pc = "done" /\ obs.clicks = MaxClicks

\* C12: a transitionOut() call on a controller that is already
\* transitioning registers no frame and changes no scene state, and
\* isTransitioning, once set, stays set.
C12_ReentrantCallIsNoOp ==
    /\ [][(Len(portal'.calls) > Len(portal.calls) /\ portal.isTransitioning)
            => raf' = raf /\ PortalSceneState' = PortalSceneState]_vars
    /\ [][portal.isTransitioning => portal'.isTransitioning]_vars

\* A call was made while a transition was running.
C12_Witness ==
    /\ portal.isTransitioning
    /\ \E c \in 1..Len(portal.calls) : ~portal.calls[c].started

\* C13: right after a destroy() call the destroyed controller has no frame
\* callback registered with the display.
C13_DestroyCancelsFrames ==
    [][/\ obs'.portalDestroys # obs.portalDestroys
          => \A i \in 1..Len(raf'.pending) :
                raf'.pending[i].fn \notin {"animate", "transitionAnimate"}
       /\ obs'.worldDestroys # obs.worldDestroys
          => \A i \in 1..Len(raf'.pending) :
                raf'.pending[i].fn # "worldAnimate"]_vars

\* C14: when a transition has completed by running its full duration, the
\* camera field of view is 100 and the camera depth position is -0.5.
C14_CameraAtCompletion ==
    (\/ portal.progress = Duration
     \/ /\ ~portal.isDestroyed
        /\ \E c \in 1..Len(portal.calls) :
               portal.calls[c].started /\ portal.calls[c].resolved)
    => portal.fov = Whole(100) /\ portal.cameraZ = Num(-1, 2)

\* A transition has completed on the frame at exactly its duration.
C14_Witness ==
    /\ ~portal.isDestroyed
    /\ portal.fov = Whole(100)
    /\ \E c \in 1..Len(portal.calls) :
          /\ portal.calls[c].signals = 1
          /\ PortalElapsed - portal.calls[c].startTime = Duration

\* A frame callback returns and it was the animate loop of a live world.
WorldFrame ==
    /\ raf.running # <<>>
    /\ raf'.running = Tail(raf.running)
    /\ Head(raf.running).fn = "worldAnimate"
    /\ ~world.isDestroyed

\* C15: with a finite progress p stored, a world frame moves camera Y by
\* one twentieth of its distance to 2 - 3p and camera Z by one twentieth of
\* its distance to 10 - 5p; with p = 1/2 the Y target is 1/2.
C15_CameraFollowsScroll ==
    [][(WorldFrame /\ world.scrollProgress.kind = "num"
                   /\ world.camera.y.kind = "num")
         => LET p == world.scrollProgress
                y == world.camera.y
                z == world.camera.z
                three_p == Num(3 * p.n, p.d)
                five_p == Num(5 * p.n, p.d)
            IN  /\ JsMul(Whole(20), JsSub(world'.camera.y, y))
                     = JsSub(JsSub(Whole(2), three_p), y)
                /\ JsMul(Whole(20), JsSub(world'.camera.z, z))
                     = JsSub(JsSub(Whole(10), five_p), z)
                /\ p = Num(1, 2)
                     => JsMul(Whole(20), JsSub(world'.camera.y, y))
                          = JsSub(Num(1, 2), y)]_vars

\* One frame after updateScroll(0.5) on a fresh world: Y = 2 + (0.5 - 2) / 20,
\* Z = 10 + (7.5 - 10) / 20.
C15_Witness ==
    /\ world.scrollProgress = Num(1, 2)
    /\ world.camera.y = Num(77, 40)
    /\ world.camera.z = Num(79, 8)

\* C16: the stored progress is the value passed last, whatever it is, and a
\* world frame computes the camera from that value alone.
C16_LastWriteWins ==
    /\ [](world.exists => world.scrollProgress = obs.passed)
    /\ [][WorldFrame
            => LET targetY == JsSub(Whole(2), JsMul(obs.passed, Whole(3)))
                   targetZ == JsSub(Whole(10), JsMul(obs.passed, Whole(5)))
               IN  /\ world'.camera.y
                        = JsAdd(world.camera.y,
                                JsMul(JsSub(targetY, world.camera.y), Num(1, 20)))
                   /\ world'.camera.z
                        = JsAdd(world.camera.z,
                                JsMul(JsSub(targetZ, world.camera.z), Num(1, 20)))]_vars

\* A frame has consumed the out-of-range value 2: Y = 2 + (-4 - 2) / 20,
\* Z = 10 + (0 - 10) / 20.
C16_Witness ==
    /\ obs.passed = Whole(2)
    /\ world.scrollProgress = Whole(2)
    /\ world.camera.y = Num(17, 10)
    /\ world.camera.z = Num(19, 2)

\* A frame callback returns and it was the animate loop of a live portal.
PortalFrame ==
    /\ raf.running # <<>>
    /\ raf'.running = Tail(raf.running)
    /\ Head(raf.running).fn = "animate"
    /\ ~portal.isDestroyed

\* |after - target| <= |before - target|
NoFarther(before, after, target) ==
    JsLe(JsAbs(JsSub(after, target)), JsAbs(JsSub(before, target)))

\* C17: a frame of either controller leaves the smoothed pointer, on each
\* axis, no farther from the pointer target than it was.
C17_PointerNeverOvershoots ==
    [][/\ PortalFrame
          => /\ NoFarther(portal.mouse.x, portal'.mouse.x, portal.targetMouse.x)
             /\ NoFarther(portal.mouse.y, portal'.mouse.y, portal.targetMouse.y)
       /\ WorldFrame
          => /\ NoFarther(world.mouse.x, world'.mouse.x, world.targetMouse.x)
             /\ NoFarther(world.mouse.y, world'.mouse.y, world.targetMouse.y)]_vars

\* The portal's smoothed pointer after one frame toward the bottom right
\* corner (1, -1).
C17_Witness ==
    /\ portal.targetMouse = Vec2(Whole(1), Whole(-1))
    /\ portal.mouse = Vec2(Num(1, 20), Num(-1, 20))

\* C18 as stated: a world frame that runs 4 s after the previous one finds
\* the grid-floor Z offset it left.
C18_GridPeriodFour ==
    [][(WorldFrame /\ WorldElapsed = world.time + 4000)
         => world'.gridZ = world.gridZ]_vars

\* C18 as amended: a world frame that runs 8 s after the previous one finds
\* the grid-floor Z offset it left.
C18_GridPeriodEight ==
    [][(WorldFrame /\ WorldElapsed = world.time + 8000)
         => world'.gridZ = world.gridZ]_vars

\* The frame at 12 s, 8 s after the frame at 4 s: the offset is -2 again.
C18_Witness ==
    /\ world.time = 12000
    /\ world.gridZ = Whole(-2)

\* C19: a window resize gives every live controller the aspect ratio and
\* the output size of the new window, and changes nothing of a destroyed one.
C19_ResizeReachesLiveControllers ==
    [][win' # win
         => /\ (portal.exists /\ ~portal.isDestroyed)
               => /\ portal'.aspect = Num(win'[1], win'[2])
                  /\ portal'.size = win'
            /\ portal.isDestroyed => portal' = portal
            /\ (world.exists /\ ~world.isDestroyed)
               => /\ world'.aspect = Num(win'[1], win'[2])
                  /\ world'.size = win'
            /\ world.isDestroyed => world' = world]_vars

\* The window was resized after the portal was destroyed: the portal keeps
\* the size of the old window.
C19_Witness ==
    /\ portal.isDestroyed
    /\ win = <<800, 600>>
    /\ portal.size = <<1920, 1080>>

\* C20: scene construction produces exactly the configured number of entries
\* (2000 stars, 18 floating solids, 8 fog planes, 3 rings with 20 marker dots
\* each, 1200 cosmic particles, 30 cursor particles), and every generated
\* value lies in its documented range: star size in [0.2, 1.4], solid size in
\* [0.2, 0.8], cosmic-particle radius in [4, 22], every cursor-particle
\* coordinate in [-0.2, 0.2].
Within(v, low, high) == JsLe(low, v) /\ JsLe(v, high)

C20_SceneAsConfigured ==
    /\ (scene.pc = "built" /\ scene.owner = "world") =>
          scene.stars = 2000 /\ scene.solids = 18 /\ scene.fog = 8
    /\ (scene.pc = "built" /\ scene.owner = "portal") =>
          /\ scene.rings = <<20, 20, 20>>
          /\ scene.particles = 1200
          /\ scene.cursor = 30
    /\ \A i \in DOMAIN scene.starSize :
          Within(scene.starSize[i], Num(2, 10), Num(14, 10))
    /\ \A i \in DOMAIN scene.solidSize :
          Within(scene.solidSize[i], Num(2, 10), Num(8, 10))
    /\ \A i \in DOMAIN scene.radius :
          Within(scene.radius[i], Whole(4), Whole(22))
    /\ \A i \in DOMAIN scene.cursorPosition :
          Within(scene.cursorPosition[i], Num(-2, 10), Num(2, 10))

\* a world built whose last star came from the largest draw and whose last
\* solid from the smallest
C20_Witness ==
    /\ scene.pc = "built"
    /\ scene.owner = "world"
    /\ world.exists
    /\ scene.starSize = <<StarSize(Num(RandomSteps - 1, RandomSteps))>>
    /\ scene.solidSize = <<SolidSize(Zero)>>

\* A render loop of the controller has a callback registered with the display
\* or running.
Registered(fns) ==
    LET registered == raf.running \o raf.pending IN
    \E i \in 1..Len(registered) : registered[i].fn \in fns

PortalLoop == Registered({"animate", "transitionAnimate"})
WorldLoop == Registered({"worldAnimate"})

\* C21: in the sequence the WorldScene is constructed strictly before the
\* portal container is hidden and the PortalScene destroyed; the portal and
\* world render loops are both active only between those two steps, and once
\* the portal is destroyed the world loop is the only active render loop.
C21_LoopsOverlapOnlyBetween ==
    /\ [](dom.portalHidden \/ portal.isDestroyed => world.exists)
    /\ [][world'.exists /\ ~world.exists =>
             ~dom'.portalHidden /\ ~portal'.isDestroyed]_vars
    /\ [](PortalLoop /\ WorldLoop => app.pc = "worldStart")
    /\ [](portal.isDestroyed => WorldLoop /\ ~PortalLoop)

\* a frame in which both loops rendered, after the world was constructed
C21_Witness ==
    /\ PortalLoop
    /\ WorldLoop
    /\ world.time > 0
    /\ world.renders = 1
    /\ portal.renders = 1
    /\ raf.running = <<>>

\* Where in the order of the statements run a step stands; 0 when it has not run.
RECURSIVE Position(_, _)
Position(step, n) ==
    IF n = 0 THEN 0
    ELSE IF obs.order[n] = step /\ Position(step, n - 1) = 0 THEN n
    ELSE Position(step, n - 1)

Ran(step) == Position(step, Len(obs.order)) > 0

\* `first` ran, and ran before `second` did.
Before(first, second) ==
    /\ Ran(first)
    /\ Position(first, Len(obs.order)) < Position(second, Len(obs.order))

\* C22: the world scene's render loop does not begin before the
\* portal-destroy step of the sequence has been scheduled.
C22_WorldLoopAfterDestroyScheduled ==
    WorldLoop => Before("destroyScheduled", "initWorld")

\* C23: the flash overlay masks the scene swap: it is activated before the
\* WorldScene is constructed, stays active while the world is constructed
\* and the portal is destroyed, and is removed only after the portal has been
\* destroyed, at least 150 + 50 + 400 ms after its activation.
C23_FlashMasksSwap ==
    /\ [](world.exists => Before("flashOn", "initWorld"))
    /\ [][(world'.exists /\ ~world.exists) \/ (portal'.isDestroyed /\ ~portal.isDestroyed)
             => dom.flashActive /\ dom'.flashActive]_vars
    /\ [](dom.flashHidden =>
             portal.isDestroyed /\ Before("portalDestroy", "flashOff"))
    /\ [][dom.flashActive /\ ~dom'.flashActive =>
             now >= obs.flashSince + 150 + 50 + 400]_vars

\* the flash has been removed, the world is running and the portal is gone
C23_Witness ==
    /\ dom.flashHidden
    /\ ~dom.flashActive
    /\ world.exists
    /\ portal.isDestroyed
    /\ Ran("flashOff")

\* C24: within one transition sequence the audio notifications are ordered:
\* the transition cue and the ambient start are requested before the portal
\* transition-out begins, the ambient stop is requested only after the flash
\* overlay has been removed, and the world reveal starts only after the
\* ambient stop was requested.
C24_AudioOrdered ==
    /\ [](Ran("transitionOut") =>
             /\ Before("cue", "transitionOut")
             /\ Before("ambientStart", "transitionOut"))
    /\ [](portal.isTransitioning => audio.ctx /\ audio.cues >= 1)
    /\ [](Ran("audioStop") => Before("flashOff", "audioStop"))
    /\ [][audio.isPlaying /\ ~audio'.isPlaying => ~dom'.flashActive]_vars
    /\ [](Ran("reveal") => Before("audioStop", "reveal"))

\* a sequence that has run to its end: cue played, ambient sound stopped
C24_Witness ==
    /\ Ran("reveal")
    /\ dom.revealed
    /\ audio.cues = 1
    /\ ~audio.isPlaying

\* The end state of the sequence.
SequenceEnded ==
    /\ portal.isDestroyed
    /\ ~app.portal
    /\ world.exists
    /\ app.world
    /\ dom.flashHidden
    /\ ~dom.flashActive
    /\ dom.revealed

\* C25: once an 'enter' trigger is accepted in phase 'portal', and provided
\* display frames and timers keep firing, the sequence eventually reaches its
\* end state: portal destroyed and its reference cleared, world constructed,
\* flash overlay removed, world reveal started.
C25_SequenceCompletes == Ran("transitionOut") ~> SequenceEnded

\* the end state, reached through a transition that ran its full duration
C25_Witness ==
    /\ SequenceEnded
    /\ Ran("transitionOut")
    /\ portal.progress = Duration

\* C26: in the portal's Active state the rotation of every orbit ring is a
\* pure function of elapsed time: two runs that reach the same elapsed time
\* after different numbers of frames have the same ring rotation on every
\* axis.
C26_RingsFollowTime ==
    portal.look.time = obs.twin.look.time =>
        \A i \in 1..RingCount : portal.look.rings[i] = obs.twin.look.rings[i]

\* A transitionAnimate frame of a live portal completes call c.
Completes(c) ==
    /\ TransitionFrame
    /\ ~portal.calls[c].resolved
    /\ portal'.calls[c].resolved

\* C27: during a portal transition-out the globe glow intensity and the core
\* emissive intensity only ramp upward frame over frame, and at completion
\* the glow intensity is 4 times and the core intensity 6 times their
\* pre-transition base value.
C27_GlowRampsToFourfold ==
    /\ [][TransitionFrame =>
             /\ JsLe(portal.look.glowIntensity, portal'.look.glowIntensity)
             /\ JsLe(portal.look.coreIntensity, portal'.look.coreIntensity)]_vars
    /\ [][\A c \in 1..Len(portal.calls) : Completes(c) =>
             /\ portal'.look.glowIntensity = JsMul(Whole(4), LookBuilt.glowIntensity)
             /\ portal'.look.coreIntensity = JsMul(Whole(6), LookBuilt.coreIntensity)]_vars

\* C28: touch-move events, like mouse-move events, update the pointer target
\* of whichever scene controller is currently active, using
\* nx = (x / width) * 2 - 1 and ny = -(y / height) * 2 + 1.
C28_TouchMovesActiveTarget ==
    LET nx == JsSub(JsMul(Num(obs.pointer.x, win[1]), Whole(2)), Whole(1))
        ny == JsAdd(JsNeg(JsMul(Num(obs.pointer.y, win[2]), Whole(2))), Whole(1))
    IN  obs.pointer.kind # "none" =>
           /\ (portal.exists /\ ~portal.isDestroyed) => portal.targetMouse = Vec2(nx, ny)
           /\ (world.exists /\ ~world.isDestroyed) => world.targetMouse = Vec2(nx, ny)

\* The distance between the grid line built in this step and the one built
\* in the pass before it.
LineSpacing == JsSub(scene'.lineZ[1], scene.lineZ[1])

\* A pass of the grid loop that follows another pass.
NextLineBuilt == scene.lineZ # <<>> /\ scene'.lines > scene.lines

\* C29 (as stated): the modulus of the grid-floor Z offset (4) equals the
\* spacing between adjacent grid lines as constructed.
C29_ModulusEqualsSpacing ==
    [][NextLineBuilt => LineSpacing = Whole(GridModulus)]_vars

\* C29 (amended): the modulus of the grid-floor Z offset (4) is twice the
\* spacing between adjacent grid lines as constructed, which is
\* gridSize / gridDivisions = 2.
C29_ModulusTwiceSpacing ==
    [][NextLineBuilt => /\ LineSpacing = Num(GridSize, GridDivisions)
                        /\ JsMul(LineSpacing, Whole(2)) = Whole(GridModulus)]_vars

\* The grid is complete: 101 lines along x, each one spacing from the last.
C29_Witness ==
    /\ scene.owner = "world"
    /\ scene.lines = 2 * (2 * GridDivisions + 1)
    /\ scene.lineZ = <<Whole(GridSize)>>

\* C30: the per-frame update of the world scene never modifies a floating
\* solid's animation descriptor (startX, startY, floatSpeed, rotSpeed, phase,
\* floatAmplitude): in every reachable state it equals the value assigned at
\* construction.
C30_DescriptorAsConstructed ==
    (world.exists /\ world.followed) => world.solid.userData = obs.userData

\* Frames at a later time have moved and turned the solid.
C30_Witness ==
    /\ world.followed
    /\ world.moves = MaxMoves
    /\ world.time > 0
    /\ world.solid.position.y.radians # Zero
    /\ world.solid.rotation.x # Zero
    /\ world.solid.userData.phase # Zero

\* C31: the audio context is created at most once over any sequence of start,
\* stop, toggle, playTransitionWhoosh and playHoverBlip calls, and start()
\* while ambient playback is already on creates no additional oscillators or
\* noise source.
C31_ContextOnceStartIdempotent ==
    /\ [](audio.contexts <= 1)
    /\ [](audio.ctx <=> audio.contexts = 1)
    /\ [][audio.isPlaying => /\ audio'.starts = audio.starts
                             /\ audio'.running \subseteq audio.running]_vars

\* Ambient playback is on for the second time, and a cue has been played.
C31_Witness ==
    /\ audio.isPlaying
    /\ audio.starts = 2
    /\ audio.contexts = 1
    /\ audio.cues >= 1
    /\ audio.timers = {}

\* C32: each scene controller renders at most once per display frame in every
\* state, the portal's Transitioning state included: the portal's animate
\* loop and its transition animation never both render in the same frame.
C32_OneRenderPerFrame ==
    /\ portal.renders <= 1
    /\ world.renders <= 1

\* C33: transitionOut() never hangs: display frames firing, the completion
\* of every call eventually resolves, also when destroy() was called before
\* the call or is called while the transition is running.
C33_TransitionOutNeverHangs ==
    \A c \in 1..(MaxCalls + 1) :
        /\ (c <= Len(portal.calls)) ~> (c <= Len(portal.calls) /\ portal.calls[c].resolved)
        /\ (c <= Len(portal.calls) /\ portal.isDestroyed)
              ~> (c <= Len(portal.calls) /\ portal.calls[c].resolved)

\* A transition that destroy() cut short before its full progress, or that
\* was started on a destroyed portal, has resolved.
C33_Witness ==
    /\ portal.isDestroyed
    /\ portal.progress < Duration
    /\ \E c \in 1..Len(portal.calls) :
          portal.calls[c].started /\ portal.calls[c].signals = 1

\* C35: if the WorldScene constructor throws during the transition sequence,
\* the system does not stay stuck behind the flash: the flash overlay is
\* still eventually removed, or the portal remains usable and 'enter' can be
\* retried.
C35_NotStuckBehindFlash ==
    Ran("initWorldThrew")
       ~> (~dom.flashActive \/ (app.portal /\ app.currentPhase = "portal"))

\* The camera's Y and Z are finite numbers.
CameraFinite == world.camera.y.kind = "num" /\ world.camera.z.kind = "num"

\* C36: the world camera recovers from a bad scroll value: after a non-finite
\* progress has been consumed by a frame, later finite progress values bring
\* camera Y and Z back to finite positions.  (A camera that is not finite
\* while the stored progress is finite becomes finite, unless a non-finite
\* progress is passed again, the world is destroyed, or the frames that are
\* followed are used up.)
C36_CameraRecovers ==
    (world.scrollProgress.kind = "num" /\ ~CameraFinite)
       ~> \/ CameraFinite
          \/ world.scrollProgress.kind # "num"
          \/ world.isDestroyed
          \/ world.moves >= MaxMoves

\* C37: if every value passed to updateScroll lies in [0, 1], camera Y lies
\* in [-1, 2] and camera Z in [5, 10] in every reachable state, whatever the
\* interleaving of scroll events and frames.
C37_CameraInBox ==
    world.exists => /\ Within(world.camera.y, Whole(-1), Whole(2))
                    /\ Within(world.camera.z, Whole(5), Whole(10))

\* Frames have moved the camera towards the targets of progress 1 and have
\* not reached them.
C37_Witness ==
    /\ world.scrollProgress = Whole(1)
    /\ world.moves = MaxMoves
    /\ world.camera.y # Whole(2)
    /\ world.camera.y # Whole(-1)
    /\ world.camera.z # Whole(10)

\* C38: during a portal transition-out the opacity of each orbit ring is
\* non-increasing frame over frame, never exceeds the opacity the ring had
\* before the transition started, and is 0 at completion.
C38_RingsFadeOut ==
    /\ [][TransitionFrame =>
             JsLe(portal'.look.ringOpacity, portal.look.ringOpacity)]_vars
    /\ [](JsLe(portal.look.ringOpacity, LookBuilt.ringOpacity))
    /\ [][\A c \in 1..Len(portal.calls) : Completes(c) =>
             portal'.look.ringOpacity = Zero]_vars

\* C34: whenever the audio system reports ambient playback as on and no stop
\* has been requested since the last start, the ambient oscillators and the
\* noise source created by that start are still running, for every
\* interleaving of start, stop, toggle and the cleanup timer of stop.
C34_PlayingMeansSounding ==
    audio.isPlaying => /\ <<"oscillators", audio.starts>> \in audio.running
                       /\ <<"noiseNode", audio.starts>> \in audio.running

=============================================================================
